---- MODULE Spec2Model ----
(***************************************************************************)
(* A model of probe-blueprint's `stubify` command (src/commands/stubify.rs) *)
(* at the level of parsed documents: the directory walk that collects the  *)
(* parse results, pass 1 (label reservation, label synthesis, entity       *)
(* creation), the label index, pass 2 (merging of standalone \proves       *)
(* proofs), the resolve pass and the two file writes.                      *)
(*                                                                         *)
(* Strings that the code concatenates or formats (paths, labels, stub      *)
(* names) are sequences of one-character strings, so that                  *)
(* format!("{}/{}", path, label) and format!("a{:010}", counter) are       *)
(* computed, not assumed.  Option<T> is a sequence of length 0 (None) or   *)
(* 1 (Some).  HashMap<K, V> is a function, HashSet<T> a set.               *)
(***************************************************************************)
EXTENDS Integers, Sequences, FiniteSets, TLC

VARIABLES
    pc,                     \* position of run() in its body
    err,                    \* the Err(..) run() returned, <<>> while none
    blueprint_src_exists,   \* whether <project>/blueprint/src exists
    web_tex,                \* Option: the Config scraped from web.tex
    unread,                 \* path -> document, the .tex files WalkDir has yet to yield
    project_config,         \* Config
    all_envs,               \* Vec<ParsedEnv>
    all_standalone_proofs,  \* Vec<(String, StandaloneProof)>
    env_i,                  \* number of all_envs entries pass 1 has consumed
    seen_labels,            \* HashSet<String>
    label_counter,          \* u64
    all_stubs,              \* HashMap<String, Stub>
    label_to_stub_name,     \* HashMap<String, String>
    to_index,               \* stub names the index loop has yet to visit
    proof_i,                \* number of standalone proofs pass 2 has consumed
    to_resolve,             \* stub names the resolve loop has yet to visit
    warnings,               \* the "references unknown label" warnings printed
    stubs_file,             \* Option: the map written to the output file
    config_file,            \* Option: the object written to .verilib/config.json
    documents,              \* path -> document, the .tex files under blueprint/src
    earlier_run,            \* Option: what an earlier run() on the same files did
    atoms_file,             \* Option: the map atomize wrote to its output file
    text,                   \* the text a function of the parser is applied to
    env_types,              \* the block types parse_tex_file looks for
    stripped_text,          \* Option: strip_latex_comments(text)
    top_labels,             \* Option: extract_all_labels(text)
    parsed_envs,            \* Option: parse_tex_file(text, ..)
    standalone_proofs       \* Option: find_standalone_proofs(text, ..)

\* the variables of the parser's functions
text_vars == <<text, env_types, stripped_text, top_labels, parsed_envs,
               standalone_proofs>>

vars == <<pc, err, blueprint_src_exists, web_tex, unread, project_config,
          all_envs, all_standalone_proofs, env_i, seen_labels, label_counter,
          all_stubs, label_to_stub_name, to_index, proof_i, to_resolve,
          warnings, stubs_file, config_file, documents, earlier_run,
                   atoms_file, text_vars>>

----------------------------------------------------------------------------
(* Bounds of the model. *)

\* the largest number of .tex documents in a project
MaxDocs == 2

----------------------------------------------------------------------------
(* Option, maps, sequences. *)

None == <<>>

Some(v) == <<v>>

IsSome(o) == Len(o) = 1

EmptyMap == [k \in {} |-> {}]

\* HashMap::insert: a later insert under the same key replaces the entry
MapInsert(m, k, v) == (k :> v) @@ m

Range(s) == {s[i] : i \in 1..Len(s)}

----------------------------------------------------------------------------
(* Strings as sequences of characters. *)

Digits == <<"0", "1", "2", "3", "4", "5", "6", "7", "8", "9">>

\* the decimal digits of n, most significant first
RECURSIVE Decimal(_)
Decimal(n) == IF n < 10 THEN <<Digits[n + 1]>>
              ELSE Decimal(n \div 10) \o <<Digits[(n % 10) + 1]>>

RECURSIVE ZeroPad(_, _)
ZeroPad(s, width) == IF Len(s) >= width THEN s ELSE ZeroPad(<<"0">> \o s, width)

\* width of the counter field of a generated label: the 010 of "a{:010}"
LabelWidth == 10

\* format!("a{:010}", counter)
generate_label(counter) == <<"a">> \o ZeroPad(Decimal(counter), LabelWidth)

\* (mutant) the stub name is the bare label, without the document path
StubNameLabelOnly(relative_path, primary_label) == primary_label

\* (mutant) the stub name is the document path, without the label
StubNamePathOnly(relative_path, primary_label) == relative_path

\* format!("{}/{}", env.relative_path, primary_label)
StubName(relative_path, primary_label) == relative_path \o <<"/">> \o primary_label

----------------------------------------------------------------------------
(* The records of the program. *)

\* Config::default()
DefaultConfig == [home |-> None, github |-> None, dochome |-> None]

\* (mutant) a value that is already there is kept
MergeConfigFirstWins(base, other) ==
    [home    |-> IF IsSome(base.home) THEN base.home ELSE other.home,
     github  |-> IF IsSome(base.github) THEN base.github ELSE other.github,
     dochome |-> IF IsSome(base.dochome) THEN base.dochome ELSE other.dochome]

\* merge_config: other's value where other has one, else base's
merge_config(base, other) ==
    [home    |-> IF IsSome(other.home) THEN other.home ELSE base.home,
     github  |-> IF IsSome(other.github) THEN other.github ELSE base.github,
     dochome |-> IF IsSome(other.dochome) THEN other.dochome ELSE base.dochome]

LineRange(s, e) == [lines_start |-> s, lines_end |-> e]

\* What parse_tex_file pushes for a statement that no proof follows (or whose
\* following proof carries \proves): every proof-side field is None.
Statement(env_type, spec_lines, labels, uses) ==
    [env_type           |-> env_type,
     spec_lines         |-> spec_lines,
     proof_lines        |-> None,
     labels             |-> labels,
     code_name          |-> None,
     lean_names         |-> None,
     spec_ok            |-> FALSE,
     mathlib_ok         |-> FALSE,
     not_ready          |-> FALSE,
     discussion         |-> <<>>,
     spec_dependencies  |-> uses,
     proof_ok           |-> None,
     proof_mathlib_ok   |-> None,
     proof_not_ready    |-> None,
     proof_discussion   |-> None,
     proof_dependencies |-> None,
     proof_lean_names   |-> None]

\* Some(list) for a non-empty list, None for an empty one
NonEmptyOpt(list) == IF list = <<>> THEN None ELSE Some(list)

\* Some(true) for a macro that is present, None otherwise
FlagOpt(present) == IF present THEN Some(TRUE) ELSE None

\* The proof payload shared by an attached proof and a StandaloneProof
ProofData(lines, labels, ok, mathlib, notready, discussion, uses, lean) ==
    [lines |-> lines, labels |-> labels, proof_ok |-> ok, mathlib_ok |-> mathlib,
     not_ready |-> notready, discussion |-> discussion, dependencies |-> uses,
     lean_names |-> lean]

\* (mutant) the flags of the attached proof are stored as they were read, and
\* its lists as they were extracted
WithProofPlainFields(stmt, p) ==
    [stmt EXCEPT !.labels             = @ \o p.labels,
                 !.proof_lines        = Some(p.lines),
                 !.proof_ok           = Some(p.proof_ok),
                 !.proof_mathlib_ok   = Some(p.mathlib_ok),
                 !.proof_not_ready    = Some(p.not_ready),
                 !.proof_discussion   = Some(p.discussion),
                 !.proof_dependencies = Some(p.dependencies),
                 !.proof_lean_names   = Some(p.lean_names)]

\* parse_tex_file, the branch that attaches the proof found by adjacency: the
\* proof's top-level labels are appended, its fields become the proof-side fields
WithProof(stmt, p) ==
    [stmt EXCEPT !.labels             = @ \o p.labels,
                 !.proof_lines        = Some(p.lines),
                 !.proof_ok           = FlagOpt(p.proof_ok),
                 !.proof_mathlib_ok   = FlagOpt(p.mathlib_ok),
                 !.proof_not_ready    = FlagOpt(p.not_ready),
                 !.proof_discussion   = NonEmptyOpt(p.discussion),
                 !.proof_dependencies = NonEmptyOpt(p.dependencies),
                 !.proof_lean_names   = NonEmptyOpt(p.lean_names)]

\* find_standalone_proofs: the StandaloneProof pushed for a proof with \proves
StandaloneProof(proves, p) ==
    [proves_labels |-> proves,
     lines         |-> p.lines,
     proof_ok      |-> p.proof_ok,
     mathlib_ok    |-> p.mathlib_ok,
     not_ready     |-> p.not_ready,
     discussion    |-> p.discussion,
     dependencies  |-> p.dependencies,
     lean_names    |-> p.lean_names]

\* envs.push(ParsedEnv { relative_path: relative_path.to_string(), .. })
ParsedEnv(relative_path, stmt) == [relative_path |-> relative_path] @@ stmt

\* (mutant) the stub keeps the label list as parsed, without the generated label
StubStaleLabels(env, labels, primary_label) ==
    [label              |-> primary_label,
     stub_type          |-> env.env_type,
     stub_path          |-> env.relative_path,
     stub_spec          |-> env.spec_lines,
     stub_proof         |-> env.proof_lines,
     labels             |-> env.labels,
     code_name          |-> env.code_name,
     lean_names         |-> env.lean_names,
     spec_ok            |-> env.spec_ok,
     mathlib_ok         |-> env.mathlib_ok,
     not_ready          |-> env.not_ready,
     discussion         |-> env.discussion,
     spec_dependencies  |-> env.spec_dependencies,
     proof_ok           |-> env.proof_ok,
     proof_mathlib_ok   |-> env.proof_mathlib_ok,
     proof_not_ready    |-> env.proof_not_ready,
     proof_discussion   |-> env.proof_discussion,
     proof_dependencies |-> env.proof_dependencies,
     proof_lean_names   |-> env.proof_lean_names]

\* The Stub that pass 1 inserts for env; labels is env.labels after pass 1 has
\* completed it (env.labels.push(generated) on an empty list)
Stub(env, labels, primary_label) ==
    [label              |-> primary_label,
     stub_type          |-> env.env_type,
     stub_path          |-> env.relative_path,
     stub_spec          |-> env.spec_lines,
     stub_proof         |-> env.proof_lines,
     labels             |-> labels,
     code_name          |-> env.code_name,
     lean_names         |-> env.lean_names,
     spec_ok            |-> env.spec_ok,
     mathlib_ok         |-> env.mathlib_ok,
     not_ready          |-> env.not_ready,
     discussion         |-> env.discussion,
     spec_dependencies  |-> env.spec_dependencies,
     proof_ok           |-> env.proof_ok,
     proof_mathlib_ok   |-> env.proof_mathlib_ok,
     proof_not_ready    |-> env.proof_not_ready,
     proof_discussion   |-> env.proof_discussion,
     proof_dependencies |-> env.proof_dependencies,
     proof_lean_names   |-> env.proof_lean_names]

----------------------------------------------------------------------------
(* The inputs: projects of at most MaxDocs documents, each document the    *)
(* parse result of one .tex file.                                          *)

\* label texts
X == <<"x">>

Y == <<"y">>

Z == <<"z">>

\* an explicit label with the shape of the first synthesized token
A0 == <<"a", "0", "0", "0", "0", "0", "0", "0", "0", "0", "0">>

\* the argument of a \discussion macro
Seven == <<"7">>

\* Paths relative to blueprint/src of the .tex files WalkDir can yield.  They
\* name files, so none is a directory prefix of another.
PathPool == {<<"a.tex">>, <<"b.tex">>, <<"d", "/", "c.tex">>}

NoProofData == ProofData(LineRange(5, 6), <<>>, FALSE, FALSE, FALSE, <<>>, <<>>, <<>>)

\* a document: the Config its macros give, the statements parse_tex_file
\* returns for it and the proofs find_standalone_proofs returns for it
Doc(config, envs, proofs) == [config |-> config, envs |-> envs, proofs |-> proofs]

Thm(labels, uses) == Statement("theorem", LineRange(1, 3), labels, uses)

Lem(labels, uses) == Statement("lemma", LineRange(8, 9), labels, uses)

DocPool ==
    { \* an unlabelled statement
      Doc(DefaultConfig, <<Thm(<<>>, <<>>)>>, <<>>),
      \* one label; the document also sets \github
      Doc([DefaultConfig EXCEPT !.github = Some("g")], <<Thm(<<X>>, <<>>)>>, <<>>),
      \* three labels in one statement, the primary one last; after the
      \* statement a proof that names it with \proves, with \leanok and a
      \* \discussion
      Doc(DefaultConfig, <<Thm(<<Z, X, Y>>, <<>>)>>,
          <<StandaloneProof(<<X>>,
                            [NoProofData EXCEPT !.proof_ok = TRUE,
                                                !.discussion = <<Seven>>])>>),
      \* the same label written twice in one statement
      Doc(DefaultConfig, <<Thm(<<X, X>>, <<>>)>>, <<>>),
      \* an explicit label shaped like a synthesized one
      Doc(DefaultConfig, <<Lem(<<A0>>, <<>>)>>, <<>>),
      \* a reference to a label declared later in the same document
      Doc(DefaultConfig, <<Thm(<<Y>>, <<X>>), Lem(<<X>>, <<>>)>>, <<>>),
      \* references to labels of other documents, if any declares them
      Doc(DefaultConfig, <<Lem(<<Z>>, <<X, Y>>)>>, <<>>),
      \* an attached labelled proof with its own \uses
      Doc(DefaultConfig,
          <<WithProof(Thm(<<Y>>, <<>>),
                      [NoProofData EXCEPT !.labels = <<Z>>, !.proof_ok = TRUE,
                                          !.dependencies = <<X>>])>>,
          <<>>),
      \* two standalone proofs: one naming two labels, with its own \uses, then
      \* one naming the second label again, without \uses
      Doc(DefaultConfig, <<>>,
          <<StandaloneProof(<<Z, X>>,
                            [NoProofData EXCEPT !.lines = LineRange(11, 12),
                                                !.dependencies = <<Y>>]),
            StandaloneProof(<<X>>,
                            [NoProofData EXCEPT !.lines = LineRange(14, 15),
                                                !.proof_ok = TRUE])>>),
      \* an unlabelled statement followed by a standalone proof
      Doc(DefaultConfig, <<Lem(<<>>, <<>>)>>,
          <<StandaloneProof(<<Y>>,
                            [NoProofData EXCEPT !.lines = LineRange(17, 18),
                                                !.mathlib_ok = TRUE])>>) }

\* the Config scraped from web.tex, when the file exists
WebTexPool == {None, Some([DefaultConfig EXCEPT !.home = Some("h")])}

Projects ==
    UNION {[S -> DocPool] : S \in {T \in SUBSET PathPool : Cardinality(T) <= MaxDocs}}

----------------------------------------------------------------------------
(* Pass 1: label reservation, label synthesis, entity creation. *)

Min(S) == CHOOSE m \in S : \A n \in S : m <= n

Max(S) == CHOOSE m \in S : \A n \in S : m >= n

\* The label the duplicate check of pass 1 reports for env: Some(the first label
\* of env.labels that is in seen_labels), None when the check passes.  The check
\* runs before any label of env is inserted.
DuplicateLabel(labels, seen) ==
    LET hits == {i \in 1..Len(labels) : labels[i] \in seen}
    IN  IF hits = {} THEN None ELSE Some(labels[Min(hits)])

\* (mutant) the generated label is not checked against seen
FirstFreeNoSkip(counter, seen) == counter

\* The loop that generates a label: the first counter value, from counter on,
\* whose generated label is not in seen
RECURSIVE FirstFree(_, _)
FirstFree(counter, seen) ==
    IF generate_label(counter) \notin seen THEN counter
    ELSE FirstFree(counter + 1, seen)

\* (mutant) a generated label is pushed on every label list, empty or not
FinalLabelsAlwaysGenerated(labels, fresh) == labels \o <<generate_label(fresh)>>

\* env.labels once pass 1 is through with it: the generated label is pushed on
\* an empty list, a written list is kept
FinalLabels(labels, fresh) ==
    IF labels = <<>> THEN <<generate_label(fresh)>> ELSE labels

\* (mutant) the first label is taken as the primary one
PrimaryLabelFirst(labels) == labels[1]

\* env.labels.last().unwrap()
PrimaryLabel(labels) == labels[Len(labels)]

\* seen_labels after the labels of one statement are added
Reserve(seen, labels) == seen \union Range(labels)

----------------------------------------------------------------------------
(* The label index and pass 2: standalone proofs. *)

\* (mutant) only the primary label of a stub is indexed
IndexLabelsPrimaryOnly(index, labels, stub_name) ==
    MapInsert(index, labels[Len(labels)], stub_name)

\* for label in &stub.labels { label_to_stub_name.insert(label, stub_name) }
RECURSIVE IndexLabels(_, _, _)
IndexLabels(index, labels, stub_name) ==
    IF labels = <<>> THEN index
    ELSE IndexLabels(MapInsert(index, Head(labels), stub_name), Tail(labels), stub_name)

\* (mutant) a flag is assigned from the proof, also when the proof lacks the macro
MergeProofResetFlags(stub, proof) ==
    [stub EXCEPT
        !.stub_proof         = Some(proof.lines),
        !.proof_ok           = FlagOpt(proof.proof_ok),
        !.proof_mathlib_ok   = FlagOpt(proof.mathlib_ok),
        !.proof_not_ready    = FlagOpt(proof.not_ready),
        !.proof_discussion   = IF proof.discussion # <<>> THEN Some(proof.discussion) ELSE @,
        !.proof_dependencies = IF proof.dependencies # <<>> THEN Some(proof.dependencies) ELSE @,
        !.proof_lean_names   = IF proof.lean_names # <<>> THEN Some(proof.lean_names) ELSE @]

\* (mutant) a span that is already there is kept
MergeProofKeepSpan(stub, proof) ==
    [stub EXCEPT
        !.stub_proof         = IF IsSome(@) THEN @ ELSE Some(proof.lines),
        !.proof_ok           = IF proof.proof_ok THEN Some(TRUE) ELSE @,
        !.proof_mathlib_ok   = IF proof.mathlib_ok THEN Some(TRUE) ELSE @,
        !.proof_not_ready    = IF proof.not_ready THEN Some(TRUE) ELSE @,
        !.proof_discussion   = IF proof.discussion # <<>> THEN Some(proof.discussion) ELSE @,
        !.proof_dependencies = IF proof.dependencies # <<>> THEN Some(proof.dependencies) ELSE @,
        !.proof_lean_names   = IF proof.lean_names # <<>> THEN Some(proof.lean_names) ELSE @]

\* (mutant) a list is assigned from the proof, also when the proof's list is empty
MergeProofOverwriteLists(stub, proof) ==
    [stub EXCEPT
        !.stub_proof         = Some(proof.lines),
        !.proof_ok           = IF proof.proof_ok THEN Some(TRUE) ELSE @,
        !.proof_mathlib_ok   = IF proof.mathlib_ok THEN Some(TRUE) ELSE @,
        !.proof_not_ready    = IF proof.not_ready THEN Some(TRUE) ELSE @,
        !.proof_discussion   = NonEmptyOpt(proof.discussion),
        !.proof_dependencies = NonEmptyOpt(proof.dependencies),
        !.proof_lean_names   = NonEmptyOpt(proof.lean_names)]

\* The body of the merge: the span is always overwritten, a flag is only ever
\* set, a list is overwritten only by a non-empty list
MergeProof(stub, proof) ==
    [stub EXCEPT
        !.stub_proof         = Some(proof.lines),
        !.proof_ok           = IF proof.proof_ok THEN Some(TRUE) ELSE @,
        !.proof_mathlib_ok   = IF proof.mathlib_ok THEN Some(TRUE) ELSE @,
        !.proof_not_ready    = IF proof.not_ready THEN Some(TRUE) ELSE @,
        !.proof_discussion   = IF proof.discussion # <<>> THEN Some(proof.discussion) ELSE @,
        !.proof_dependencies = IF proof.dependencies # <<>> THEN Some(proof.dependencies) ELSE @,
        !.proof_lean_names   = IF proof.lean_names # <<>> THEN Some(proof.lean_names) ELSE @]

\* (mutant) the reference is looked up among the stub names, not the labels
LookupAmongStubNames(index, label) ==
    IF \E l \in DOMAIN index : index[l] = label THEN Some(label) ELSE None

\* label_to_stub_name.get(label)
Lookup(index, label) == IF label \in DOMAIN index THEN Some(index[label]) ELSE None

\* (mutant) the inner loop of pass 2 stops at the first label nobody owns
RECURSIVE MergeIntoStopAtUnknown(_, _, _, _)
MergeIntoStopAtUnknown(stubs, index, proof, labels) ==
    IF labels = <<>> THEN stubs
    ELSE LET found == Lookup(index, Head(labels))
         IN  IF IsSome(found) /\ found[1] \in DOMAIN stubs
             THEN MergeIntoStopAtUnknown(
                      [stubs EXCEPT ![found[1]] = MergeProof(@, proof)],
                      index, proof, Tail(labels))
             ELSE stubs

\* The inner loop of pass 2 over proof.proves_labels: all_stubs after it
RECURSIVE MergeInto(_, _, _, _)
MergeInto(stubs, index, proof, labels) ==
    IF labels = <<>> THEN stubs
    ELSE LET found == Lookup(index, Head(labels))
             next  == IF IsSome(found) /\ found[1] \in DOMAIN stubs
                      THEN [stubs EXCEPT ![found[1]] = MergeProof(@, proof)]
                      ELSE stubs
         IN  MergeInto(next, index, proof, Tail(labels))

\* The warnings the inner loop of pass 2 prints, in order
RECURSIVE MergeWarnings(_, _, _)
MergeWarnings(index, relative_path, labels) ==
    IF labels = <<>> THEN <<>>
    ELSE (IF IsSome(Lookup(index, Head(labels))) THEN <<>>
          ELSE <<[label |-> Head(labels), path |-> relative_path]>>)
         \o MergeWarnings(index, relative_path, Tail(labels))

----------------------------------------------------------------------------
(* The resolve pass. *)

\* (mutant) the dependency list is left as written
ResolveDepsKeepRaw(index, deps) == [ok |-> TRUE, deps |-> deps]

\* (mutant) a label the index does not hold is dropped from the list
RECURSIVE ResolveDepsSkipUnknown(_, _)
ResolveDepsSkipUnknown(index, deps) ==
    IF deps = <<>> THEN [ok |-> TRUE, deps |-> <<>>]
    ELSE LET found == Lookup(index, Head(deps))
             rest  == ResolveDepsSkipUnknown(index, Tail(deps))
         IN  [ok |-> TRUE, deps |-> found \o rest.deps]

\* The loop over one dependency list: ok with the resolved list, or the first
\* label the index does not hold
RECURSIVE ResolveDeps(_, _)
ResolveDeps(index, deps) ==
    IF deps = <<>> THEN [ok |-> TRUE, deps |-> <<>>]
    ELSE LET found == Lookup(index, Head(deps))
         IN  IF ~IsSome(found) THEN [ok |-> FALSE, label |-> Head(deps)]
             ELSE LET rest == ResolveDeps(index, Tail(deps))
                  IN  IF rest.ok THEN [ok |-> TRUE, deps |-> <<found[1]>> \o rest.deps]
                      ELSE rest

----------------------------------------------------------------------------
(* The output. *)

\* whether the config side file is written at all
AnyConfig(config) ==
    IsSome(config.home) \/ IsSome(config.github) \/ IsSome(config.dochome)

\* the keys run() inserts into the config object: those that were found
ConfigObject(config) ==
    [k \in {f \in {"home", "github", "dochome"} : IsSome(config[f])} |-> config[k][1]]

----------------------------------------------------------------------------
(* Text: searching in a sequence of characters.  Positions are 1-based; a  *)
(* search that finds nothing gives 0.                                      *)

\* the pattern pat occurs in s at position i
MatchAt(s, i, pat) ==
    /\ i >= 1
    /\ i + Len(pat) - 1 <= Len(s)
    /\ (pat # <<>> => s[i] = pat[1])
    /\ SubSeq(s, i, i + Len(pat) - 1) = pat

\* the first position, from position from on, where pat occurs in s
Find(s, from, pat) ==
    LET hits == {i \in from..(Len(s) - Len(pat) + 1) : MatchAt(s, i, pat)}
    IN  IF hits = {} THEN 0 ELSE Min(hits)

\* str::contains
Contains(s, pat) == Find(s, 1, pat) # 0

\* the characters \s matches and trim() removes
Whitespace == {" ", "\n", "\t"}

\* str::trim
RECURSIVE Trim(_)
Trim(s) ==
    IF s = <<>> THEN s
    ELSE IF Head(s) \in Whitespace THEN Trim(Tail(s))
    ELSE IF s[Len(s)] \in Whitespace THEN Trim(SubSeq(s, 1, Len(s) - 1))
    ELSE s

\* str::split(','): the pieces of s between commas
RECURSIVE SplitComma(_)
SplitComma(s) ==
    LET c == Find(s, 1, <<",">>)
    IN  IF c = 0 THEN <<s>>
        ELSE <<SubSeq(s, 1, c - 1)>> \o SplitComma(SubSeq(s, c + 1, Len(s)))

\* .split(',').map(trim).filter(non-empty).collect()
TrimmedItems(s) ==
    LET NonEmpty(t) == t # <<>>
        parts == SplitComma(s)
    IN  SelectSeq([i \in 1..Len(parts) |-> Trim(parts[i])], NonEmpty)

\* The leftmost match, from position from on, of the regex  open([^}]+)\}  where
\* open is the literal text of a macro up to and including its brace:
\* None, or Some of where the match starts, where it ends and its group 1
FindMacro(s, from, open) ==
    LET hits == {i \in from..(Len(s) - Len(open) + 1) :
                    /\ MatchAt(s, i, open)
                    /\ i + Len(open) <= Len(s)
                    /\ s[i + Len(open)] # "}"
                    /\ \E j \in (i + Len(open) + 1)..Len(s) : s[j] = "}"}
    IN  IF hits = {} THEN None
        ELSE LET i     == Min(hits)
                 close == Min({j \in (i + Len(open) + 1)..Len(s) : s[j] = "}"})
             IN  Some([start |-> i, end |-> close,
                       arg |-> SubSeq(s, i + Len(open), close - 1)])

\* captures_iter: group 1 of every match of  open([^}]+)\}  from from on, in order
RECURSIVE MacroArgs(_, _, _)
MacroArgs(s, from, open) ==
    LET m == FindMacro(s, from, open)
    IN  IF m = None THEN <<>>
        ELSE <<m[1].arg>> \o MacroArgs(s, m[1].end + 1, open)

\* the literal texts the regexes are built from
BraceClose == <<"}">>

BeginOpen == <<"\\", "b", "e", "g", "i", "n", "{">>

EndOpen == <<"\\", "e", "n", "d", "{">>

LabelOpen == <<"\\", "l", "a", "b", "e", "l", "{">>

LeanOpen == <<"\\", "l", "e", "a", "n", "{">>

DiscussionOpen == <<"\\", "d", "i", "s", "c", "u", "s", "s", "i", "o", "n", "{">>

ProvesOpen == <<"\\", "p", "r", "o", "v", "e", "s", "{">>

UsesOpen == <<"\\", "u", "s", "e", "s", "{">>

LeanOk == <<"\\", "l", "e", "a", "n", "o", "k">>

MathlibOk == <<"\\", "m", "a", "t", "h", "l", "i", "b", "o", "k">>

NotReady == <<"\\", "n", "o", "t", "r", "e", "a", "d", "y">>

ProbePrefix == <<"p", "r", "o", "b", "e", ":">>

ProofName == <<"p", "r", "o", "o", "f">>

\* \begin{name}
BeginOf(name) == BeginOpen \o name \o BraceClose

\* \end{name}
EndOf(name) == EndOpen \o name \o BraceClose

\* DEFAULT_ENVS
DEFAULT_ENVS ==
    << <<"d", "e", "f", "i", "n", "i", "t", "i", "o", "n">>,
       <<"l", "e", "m", "m", "a">>,
       <<"p", "r", "o", "p", "o", "s", "i", "t", "i", "o", "n">>,
       <<"t", "h", "e", "o", "r", "e", "m">>,
       <<"c", "o", "r", "o", "l", "l", "a", "r", "y">> >>

----------------------------------------------------------------------------
(* Text: comments, nested environments, macros. *)

\* (mutant) an escaped character is copied without its backslash
RECURSIVE StripCommentsDropBackslash(_)
StripCommentsDropBackslash(content) ==
    LET special == {i \in 1..Len(content) : content[i] \in {"\\", "%"}}
    IN  IF special = {} THEN content
        ELSE LET i      == Min(special)
                 before == SubSeq(content, 1, i - 1)
                 nl     == Find(content, i, <<"\n">>)
             IN  IF content[i] = "\\"
                 THEN before \o SubSeq(content, i + 1, IF i < Len(content) THEN i + 1 ELSE i)
                      \o StripCommentsDropBackslash(SubSeq(content, i + 2, Len(content)))
                 ELSE IF nl = 0 THEN before
                 ELSE before \o StripCommentsDropBackslash(SubSeq(content, nl, Len(content)))

\* (mutant) a backslash is an ordinary character: every % starts a comment
RECURSIVE StripCommentsNoEscape(_)
StripCommentsNoEscape(content) ==
    LET p  == Find(content, 1, <<"%">>)
        nl == Find(content, p, <<"\n">>)
    IN  IF p = 0 THEN content
        ELSE IF nl = 0 THEN SubSeq(content, 1, p - 1)
        ELSE SubSeq(content, 1, p - 1)
             \o StripCommentsNoEscape(SubSeq(content, nl, Len(content)))

\* (mutant) a comment is skipped together with the newline that ends it
RECURSIVE StripCommentsWithNewline(_)
StripCommentsWithNewline(content) ==
    LET special == {i \in 1..Len(content) : content[i] \in {"\\", "%"}}
    IN  IF special = {} THEN content
        ELSE LET i      == Min(special)
                 before == SubSeq(content, 1, i - 1)
                 nl     == Find(content, i, <<"\n">>)
             IN  IF content[i] = "\\"
                 THEN before \o SubSeq(content, i, IF i < Len(content) THEN i + 1 ELSE i)
                      \o StripCommentsWithNewline(SubSeq(content, i + 2, Len(content)))
                 ELSE IF nl = 0 THEN before
                 ELSE before \o StripCommentsWithNewline(SubSeq(content, nl + 1, Len(content)))

\* strip_latex_comments: a backslash is copied with the character after it, a
\* % is dropped with everything up to, not including, the next newline, any
\* other character is copied.  The loop over the characters is taken a stretch
\* at a time: up to the next backslash or %, then that one.
RECURSIVE strip_latex_comments(_)
strip_latex_comments(content) ==
    LET special == {i \in 1..Len(content) : content[i] \in {"\\", "%"}}
    IN  IF special = {} THEN content
        ELSE LET i      == Min(special)
                 before == SubSeq(content, 1, i - 1)
                 nl     == Find(content, i, <<"\n">>)
             IN  IF content[i] = "\\"
                 THEN before \o SubSeq(content, i, IF i < Len(content) THEN i + 1 ELSE i)
                      \o strip_latex_comments(SubSeq(content, i + 2, Len(content)))
                 ELSE IF nl = 0 THEN before
                 ELSE before \o strip_latex_comments(SubSeq(content, nl, Len(content)))

\* The value of pos after one iteration of the loop of strip_nested_environments
\* entered with pos: past the \end{X} that was found, else past the \begin{X},
\* else (no \begin{..} is left, break) past the end of the text
NextScanPos(content, pos) ==
    LET m == FindMacro(content, pos, BeginOpen)
    IN  IF m = None THEN Len(content) + 1
        ELSE LET end_pat == EndOf(m[1].arg)
                 e       == Find(content, m[1].end + 1, end_pat)
             IN  IF e # 0 THEN e + Len(end_pat) ELSE m[1].end + 1

\* (mutant) at a \begin{X} without \end{X} the rest of the text is kept as it is
RECURSIVE StripNestedStopAtUnmatched(_, _)
StripNestedStopAtUnmatched(content, pos) ==
    IF pos > Len(content) THEN <<>>
    ELSE LET m == FindMacro(content, pos, BeginOpen)
         IN  IF m = None THEN SubSeq(content, pos, Len(content))
             ELSE LET before  == SubSeq(content, pos, m[1].start - 1)
                      end_pat == EndOf(m[1].arg)
                      e       == Find(content, m[1].end + 1, end_pat)
                  IN  IF e # 0
                      THEN before \o StripNestedStopAtUnmatched(content, e + Len(end_pat))
                      ELSE before \o SubSeq(content, m[1].start, Len(content))

\* The loop of strip_nested_environments from position pos on: the text up to
\* the next \begin{X} is kept; if an \end{X} follows, everything through it is
\* skipped, else the \begin{X} is kept and the scan goes on after it
RECURSIVE StripNestedFrom(_, _)
StripNestedFrom(content, pos) ==
    IF pos > Len(content) THEN <<>>
    ELSE LET m == FindMacro(content, pos, BeginOpen)
         IN  IF m = None THEN SubSeq(content, pos, Len(content))
             ELSE LET before  == SubSeq(content, pos, m[1].start - 1)
                      end_pat == EndOf(m[1].arg)
                      e       == Find(content, m[1].end + 1, end_pat)
                  IN  IF e # 0
                      THEN before \o StripNestedFrom(content, e + Len(end_pat))
                      ELSE before \o SubSeq(content, m[1].start, m[1].end)
                                  \o StripNestedFrom(content, m[1].end + 1)

strip_nested_environments(content) == StripNestedFrom(content, 1)

\* extract_all_labels: the \label{..} of the text without its nested environments
extract_all_labels(content) ==
    MacroArgs(strip_nested_environments(content), 1, LabelOpen)

\* The first match of a macro with a comma-separated argument, as the list of
\* its trimmed, non-empty items: extract_lean, extract_proves, extract_uses
FirstMacroItems(content, open) ==
    LET m == FindMacro(content, 1, open)
    IN  IF m = None THEN <<>> ELSE TrimmedItems(m[1].arg)

extract_lean(content) == FirstMacroItems(content, LeanOpen)

extract_proves(content) == FirstMacroItems(content, ProvesOpen)

extract_uses(content) == FirstMacroItems(content, UsesOpen)

extract_mathlibok(content) == Contains(content, MathlibOk)

extract_notready(content) == Contains(content, NotReady)

\* extract_discussion: the trimmed argument of every \discussion{..}
extract_discussion(content) ==
    LET args == MacroArgs(content, 1, DiscussionOpen)
    IN  [i \in 1..Len(args) |-> Trim(args[i])]

\* byte_pos_to_line: 1 + the number of newlines before position pos
byte_pos_to_line(content, pos) ==
    Cardinality({i \in 1..(pos - 1) : content[i] = "\n"}) + 1

----------------------------------------------------------------------------
(* The parse of one document.  start_pos is the position of the first      *)
(* character of a match, end_pos the position after its last character.    *)

\* captures_iter of (?s)\begin{name}(.*?)\end{name}: the matches from position
\* from on, left to right, none overlapping another
RECURSIVE CapturesOf(_, _, _)
CapturesOf(content, from, name) ==
    LET b == Find(content, from, BeginOf(name))
        e == IF b = 0 THEN 0 ELSE Find(content, b + Len(BeginOf(name)), EndOf(name))
    IN  IF e = 0 THEN <<>>
        ELSE <<[env_type    |-> name,
                start_pos   |-> b,
                end_pos     |-> e + Len(EndOf(name)),
                env_content |-> SubSeq(content, b + Len(BeginOf(name)), e - 1)]>>
             \o CapturesOf(content, e + Len(EndOf(name)), name)

\* all_matches as the loop over env_types fills it: type by type
RECURSIVE AllMatches(_, _)
AllMatches(content, types) ==
    IF types = <<>> THEN <<>>
    ELSE CapturesOf(content, 1, Head(types)) \o AllMatches(content, Tail(types))

\* (mutant) all_matches is left in the order the loop over env_types filled it
SortKeepOrder(matches) == matches

\* all_matches.sort_by_key(|m| m.start_pos): a stable sort
RECURSIVE SortByStartPos(_)
SortByStartPos(matches) ==
    IF matches = <<>> THEN <<>>
    ELSE LET least == Min({matches[i].start_pos : i \in 1..Len(matches)})
             k     == Min({i \in 1..Len(matches) : matches[i].start_pos = least})
         IN  <<matches[k]>> \o
             SortByStartPos(SubSeq(matches, 1, k - 1) \o SubSeq(matches, k + 1, Len(matches)))

\* (mutant) the next proof block is taken, whatever lies before it
FindFollowingProofAnywhere(content, after_pos) ==
    LET p == Find(content, after_pos, BeginOf(ProofName))
        e == IF p = 0 THEN 0
             ELSE Find(content, p + Len(BeginOf(ProofName)), EndOf(ProofName))
    IN  IF e = 0 THEN None
        ELSE LET proof_content == SubSeq(content, p + Len(BeginOf(ProofName)), e - 1)
             IN  Some([content       |-> proof_content,
                       lines         |-> LineRange(
                           byte_pos_to_line(content, p),
                           byte_pos_to_line(content, e + Len(EndOf(ProofName)) - 1)),
                       proves_labels |-> extract_proves(proof_content)])

\* (mutant) the \proves of the proof block is not looked at
FindFollowingProofWithoutProves(content, after_pos) ==
    LET rest == {i \in after_pos..Len(content) : content[i] \notin Whitespace}
        p    == IF rest = {} THEN 0 ELSE Min(rest)
        e    == IF p = 0 \/ ~MatchAt(content, p, BeginOf(ProofName)) THEN 0
                ELSE Find(content, p + Len(BeginOf(ProofName)), EndOf(ProofName))
    IN  IF e = 0 THEN None
        ELSE LET proof_content == SubSeq(content, p + Len(BeginOf(ProofName)), e - 1)
             IN  Some([content       |-> proof_content,
                       lines         |-> LineRange(
                           byte_pos_to_line(content, p),
                           byte_pos_to_line(content, e + Len(EndOf(ProofName)) - 1)),
                       proves_labels |-> <<>>])

\* find_following_proof: the match of (?s)^\s*(\begin{proof})(.*?)\end{proof} in
\* content[after_pos..], as a ProofMatch
find_following_proof(content, after_pos) ==
    LET rest == {i \in after_pos..Len(content) : content[i] \notin Whitespace}
        p    == IF rest = {} THEN 0 ELSE Min(rest)
        e    == IF p = 0 \/ ~MatchAt(content, p, BeginOf(ProofName)) THEN 0
                ELSE Find(content, p + Len(BeginOf(ProofName)), EndOf(ProofName))
    IN  IF e = 0 THEN None
        ELSE LET proof_content == SubSeq(content, p + Len(BeginOf(ProofName)), e - 1)
             IN  Some([content       |-> proof_content,
                       lines         |-> LineRange(
                           byte_pos_to_line(content, p),
                           byte_pos_to_line(content, e + Len(EndOf(ProofName)) - 1)),
                       proves_labels |-> extract_proves(proof_content)])

\* the fields the code reads off the content of a proof block
ProofDataOf(lines, proof_content) ==
    ProofData(lines,
              extract_all_labels(proof_content),
              Contains(proof_content, LeanOk),
              extract_mathlibok(proof_content),
              extract_notready(proof_content),
              extract_discussion(proof_content),
              extract_uses(proof_content),
              extract_lean(proof_content))

\* One iteration of `for env_match in all_matches`: the ParsedEnv that is pushed
ParseEnvMatch(content, relative_path, env_match) ==
    LET env_content == env_match.env_content
        lean_list   == extract_lean(env_content)
        stmt ==
            [Statement(env_match.env_type,
                       LineRange(byte_pos_to_line(content, env_match.start_pos),
                                 byte_pos_to_line(content, env_match.end_pos - 1)),
                       extract_all_labels(env_content),
                       extract_uses(env_content))
             EXCEPT !.code_name  = IF lean_list = <<>> THEN None
                                   ELSE Some(ProbePrefix \o lean_list[1]),
                    !.lean_names = IF Len(lean_list) > 1
                                   THEN Some([j \in 1..Len(lean_list) |->
                                                 ProbePrefix \o lean_list[j]])
                                   ELSE None,
                    !.spec_ok    = Contains(env_content, LeanOk),
                    !.mathlib_ok = extract_mathlibok(env_content),
                    !.not_ready  = extract_notready(env_content),
                    !.discussion = extract_discussion(env_content)]
        proof_match == find_following_proof(content, env_match.end_pos)
    IN  IF proof_match = None \/ proof_match[1].proves_labels # <<>>
        THEN ParsedEnv(relative_path, stmt)
        ELSE ParsedEnv(relative_path,
                       WithProof(stmt, ProofDataOf(proof_match[1].lines,
                                                   proof_match[1].content)))

\* the sorted all_matches of parse_tex_file for a comment-stripped text
SortedMatches(content, types) == SortByStartPos(AllMatches(content, types))

parse_tex_file(content, relative_path, types) ==
    LET stripped == strip_latex_comments(content)
        matches  == SortedMatches(stripped, types)
    IN  [i \in 1..Len(matches) |-> ParseEnvMatch(stripped, relative_path, matches[i])]

\* find_standalone_proofs: a StandaloneProof for every proof block with \proves
find_standalone_proofs(content, relative_path) ==
    LET stripped == strip_latex_comments(content)
        blocks   == CapturesOf(stripped, 1, ProofName)
        HasProves(b) == extract_proves(b.env_content) # <<>>
        kept     == SelectSeq(blocks, HasProves)
    IN  [i \in 1..Len(kept) |->
            StandaloneProof(
                extract_proves(kept[i].env_content),
                ProofDataOf(LineRange(byte_pos_to_line(stripped, kept[i].start_pos),
                                      byte_pos_to_line(stripped, kept[i].end_pos - 1)),
                            kept[i].env_content))]

----------------------------------------------------------------------------
(* The state machine of run(). *)

\* run() is entered on one of the projects, whose web.tex, if it exists, gives
\* one of the configs
InitOver(projects, web_texs) ==
    /\ pc = "start"
    /\ err = None
    /\ blueprint_src_exists \in BOOLEAN
    /\ web_tex \in (IF blueprint_src_exists THEN web_texs ELSE {None})
    /\ unread \in (IF blueprint_src_exists THEN projects ELSE {EmptyMap})
    /\ project_config = DefaultConfig
    /\ all_envs = <<>>
    /\ all_standalone_proofs = <<>>
    /\ env_i = 0
    /\ seen_labels = {}
    /\ label_counter = 0
    /\ all_stubs = EmptyMap
    /\ label_to_stub_name = EmptyMap
    /\ to_index = {}
    /\ proof_i = 0
    /\ to_resolve = {}
    /\ warnings = <<>>
    /\ stubs_file = None
    /\ config_file = None
    /\ documents = unread
    /\ earlier_run = None
    /\ atoms_file = None
    /\ text = <<>>
    /\ env_types = DEFAULT_ENVS
    /\ stripped_text = None
    /\ top_labels = None
    /\ parsed_envs = None
    /\ standalone_proofs = None

Init == InitOver(Projects, WebTexPool)

\* run() returns Err(e): nothing after the return runs
Fail(e) ==
    /\ pc' = "failed"
    /\ err' = Some(e)

\* The check of blueprint/src and the read of web.tex
Start ==
    /\ pc = "start"
    /\ IF ~blueprint_src_exists
       THEN /\ Fail([kind |-> "MissingDirectory"])
            /\ UNCHANGED project_config
       ELSE /\ pc' = "walk"
            /\ project_config' = (IF IsSome(web_tex) THEN web_tex[1] ELSE DefaultConfig)
            /\ UNCHANGED err
    /\ UNCHANGED <<blueprint_src_exists, web_tex, unread, all_envs,
                   all_standalone_proofs, env_i, seen_labels, label_counter,
                   all_stubs, label_to_stub_name, to_index, proof_i, to_resolve,
                   warnings, stubs_file, config_file, documents, earlier_run,
                   atoms_file, text_vars>>

\* One iteration of the WalkDir loop: the next .tex file, in whatever order the
\* directory yields it
ReadFile(path) ==
    /\ pc = "walk"
    /\ path \in DOMAIN unread
    /\ LET doc == unread[path]
       IN  /\ project_config' = merge_config(project_config, doc.config)
           /\ all_envs' = all_envs \o
                  [i \in 1..Len(doc.envs) |-> ParsedEnv(path, doc.envs[i])]
           /\ all_standalone_proofs' = all_standalone_proofs \o
                  [i \in 1..Len(doc.proofs) |-> <<path, doc.proofs[i]>>]
    /\ unread' = [q \in DOMAIN unread \ {path} |-> unread[q]]
    /\ UNCHANGED <<pc, err, blueprint_src_exists, web_tex, env_i, seen_labels,
                   label_counter, all_stubs, label_to_stub_name, to_index,
                   proof_i, to_resolve, warnings, stubs_file, config_file, documents, earlier_run,
                   atoms_file, text_vars>>

\* (mutant) pass 1 starts while the directory still holds unread files
EndWalkEarly ==
    /\ pc = "walk"
    /\ pc' = "pass1"
    /\ seen_labels' = {}
    /\ label_counter' = 0
    /\ all_stubs' = EmptyMap
    /\ UNCHANGED <<err, blueprint_src_exists, web_tex, unread, project_config,
                   all_envs, all_standalone_proofs, env_i, label_to_stub_name,
                   to_index, proof_i, to_resolve, warnings, stubs_file, config_file, documents, earlier_run,
                   atoms_file, text_vars>>

\* The walk is over: seen_labels, label_counter and all_stubs are created
EndWalk ==
    /\ pc = "walk"
    /\ DOMAIN unread = {}
    /\ pc' = "pass1"
    /\ seen_labels' = {}
    /\ label_counter' = 0
    /\ all_stubs' = EmptyMap
    /\ UNCHANGED <<err, blueprint_src_exists, web_tex, unread, project_config,
                   all_envs, all_standalone_proofs, env_i, label_to_stub_name,
                   to_index, proof_i, to_resolve, warnings, stubs_file, config_file, documents, earlier_run,
                   atoms_file, text_vars>>

\* One iteration of `for mut env in all_envs`
ProcessEnv ==
    /\ pc = "pass1"
    /\ env_i < Len(all_envs)
    /\ LET env == all_envs[env_i + 1]
           dup == DuplicateLabel(env.labels, seen_labels)
       IN  IF IsSome(dup)
           THEN /\ Fail([kind |-> "DuplicateLabel", label |-> dup[1]])
                /\ UNCHANGED <<env_i, seen_labels, label_counter, all_stubs>>
           ELSE LET fresh   == FirstFree(label_counter, seen_labels)
                    labels  == FinalLabels(env.labels, fresh)
                    primary == PrimaryLabel(labels)
                IN  /\ label_counter' = (IF env.labels = <<>> THEN fresh + 1
                                         ELSE label_counter)
                    /\ seen_labels' = Reserve(seen_labels, labels)
                    /\ all_stubs' = MapInsert(all_stubs,
                                              StubName(env.relative_path, primary),
                                              Stub(env, labels, primary))
                    /\ env_i' = env_i + 1
                    /\ UNCHANGED <<pc, err>>
    /\ UNCHANGED <<blueprint_src_exists, web_tex, unread, project_config, all_envs,
                   all_standalone_proofs, label_to_stub_name, to_index, proof_i,
                   to_resolve, warnings, stubs_file, config_file, documents, earlier_run,
                   atoms_file, text_vars>>

\* Pass 1 is over: label_to_stub_name is created and the loop over all_stubs starts
EndPass1 ==
    /\ pc = "pass1"
    /\ env_i = Len(all_envs)
    /\ pc' = "index"
    /\ label_to_stub_name' = EmptyMap
    /\ to_index' = DOMAIN all_stubs
    /\ UNCHANGED <<err, blueprint_src_exists, web_tex, unread, project_config,
                   all_envs, all_standalone_proofs, env_i, seen_labels,
                   label_counter, all_stubs, proof_i, to_resolve, warnings,
                   stubs_file, config_file, documents, earlier_run,
                   atoms_file, text_vars>>

\* One iteration of `for (stub_name, stub) in &all_stubs`, in the map's order
IndexStub(stub_name) ==
    /\ pc = "index"
    /\ stub_name \in to_index
    /\ label_to_stub_name' =
           IndexLabels(label_to_stub_name, all_stubs[stub_name].labels, stub_name)
    /\ to_index' = to_index \ {stub_name}
    /\ UNCHANGED <<pc, err, blueprint_src_exists, web_tex, unread, project_config,
                   all_envs, all_standalone_proofs, env_i, seen_labels,
                   label_counter, all_stubs, proof_i, to_resolve, warnings,
                   stubs_file, config_file, documents, earlier_run,
                   atoms_file, text_vars>>

EndIndex ==
    /\ pc = "index"
    /\ to_index = {}
    /\ pc' = "pass2"
    /\ UNCHANGED <<err, blueprint_src_exists, web_tex, unread, project_config,
                   all_envs, all_standalone_proofs, env_i, seen_labels,
                   label_counter, all_stubs, label_to_stub_name, to_index, proof_i,
                   to_resolve, warnings, stubs_file, config_file, documents, earlier_run,
                   atoms_file, text_vars>>

\* One iteration of `for (relative_path, proof) in all_standalone_proofs`
MergeStandaloneProof ==
    /\ pc = "pass2"
    /\ proof_i < Len(all_standalone_proofs)
    /\ LET relative_path == all_standalone_proofs[proof_i + 1][1]
           proof         == all_standalone_proofs[proof_i + 1][2]
       IN  /\ all_stubs' = MergeInto(all_stubs, label_to_stub_name, proof,
                                     proof.proves_labels)
           /\ warnings' = warnings \o
                  MergeWarnings(label_to_stub_name, relative_path, proof.proves_labels)
    /\ proof_i' = proof_i + 1
    /\ UNCHANGED <<pc, err, blueprint_src_exists, web_tex, unread, project_config,
                   all_envs, all_standalone_proofs, env_i, seen_labels,
                   label_counter, label_to_stub_name, to_index, to_resolve,
                   stubs_file, config_file, documents, earlier_run,
                   atoms_file, text_vars>>

\* (mutant) the stubs file is written before the resolve pass
EndPass2WritesStubs ==
    /\ pc = "pass2"
    /\ proof_i = Len(all_standalone_proofs)
    /\ pc' = "resolve"
    /\ to_resolve' = DOMAIN all_stubs
    /\ stubs_file' = Some(all_stubs)
    /\ UNCHANGED <<err, blueprint_src_exists, web_tex, unread, project_config,
                   all_envs, all_standalone_proofs, env_i, seen_labels,
                   label_counter, all_stubs, label_to_stub_name, to_index, proof_i,
                   warnings, config_file, documents, earlier_run,
                   atoms_file, text_vars>>

\* Pass 2 is over: the loop over all_stubs.iter_mut() starts
EndPass2 ==
    /\ pc = "pass2"
    /\ proof_i = Len(all_standalone_proofs)
    /\ pc' = "resolve"
    /\ to_resolve' = DOMAIN all_stubs
    /\ UNCHANGED <<err, blueprint_src_exists, web_tex, unread, project_config,
                   all_envs, all_standalone_proofs, env_i, seen_labels,
                   label_counter, all_stubs, label_to_stub_name, to_index, proof_i,
                   warnings, stubs_file, config_file, documents, earlier_run,
                   atoms_file, text_vars>>

\* (mutant) references are resolved against the labels of the entities the loop
\* has reached so far, as if the index were built in the same pass
ResolveStubOnePass(stub_name) ==
    /\ pc = "resolve"
    /\ stub_name \in to_resolve
    /\ LET stub  == all_stubs[stub_name]
           sofar == [l \in {m \in DOMAIN label_to_stub_name :
                               label_to_stub_name[m] \notin to_resolve \ {stub_name}}
                       |-> label_to_stub_name[l]]
           spec  == ResolveDeps(sofar, stub.spec_dependencies)
           proof == IF IsSome(stub.proof_dependencies)
                    THEN ResolveDeps(sofar, stub.proof_dependencies[1])
                    ELSE [ok |-> TRUE, deps |-> <<>>]
       IN  IF ~spec.ok
           THEN /\ Fail([kind |-> "UnknownLabel", label |-> spec.label,
                         list |-> "spec-dependencies", stub |-> stub_name])
                /\ UNCHANGED <<all_stubs, to_resolve>>
           ELSE IF ~proof.ok
           THEN /\ Fail([kind |-> "UnknownLabel", label |-> proof.label,
                         list |-> "proof-dependencies", stub |-> stub_name])
                /\ all_stubs' = [all_stubs EXCEPT
                                    ![stub_name].spec_dependencies = spec.deps]
                /\ UNCHANGED to_resolve
           ELSE /\ all_stubs' = [all_stubs EXCEPT
                                    ![stub_name].spec_dependencies = spec.deps,
                                    ![stub_name].proof_dependencies =
                                        IF IsSome(@) THEN Some(proof.deps) ELSE @]
                /\ to_resolve' = to_resolve \ {stub_name}
                /\ UNCHANGED <<pc, err>>
    /\ UNCHANGED <<blueprint_src_exists, web_tex, unread, project_config, all_envs,
                   all_standalone_proofs, env_i, seen_labels, label_counter,
                   label_to_stub_name, to_index, proof_i, warnings, stubs_file,
                   config_file, documents, earlier_run,
                   atoms_file, text_vars>>

\* One iteration of `for (stub_name, stub) in all_stubs.iter_mut()`, in the map's
\* order.  spec_dependencies is assigned before proof_dependencies is looked at.
ResolveStub(stub_name) ==
    /\ pc = "resolve"
    /\ stub_name \in to_resolve
    /\ LET stub  == all_stubs[stub_name]
           spec  == ResolveDeps(label_to_stub_name, stub.spec_dependencies)
           proof == IF IsSome(stub.proof_dependencies)
                    THEN ResolveDeps(label_to_stub_name, stub.proof_dependencies[1])
                    ELSE [ok |-> TRUE, deps |-> <<>>]
       IN  IF ~spec.ok
           THEN /\ Fail([kind |-> "UnknownLabel", label |-> spec.label,
                         list |-> "spec-dependencies", stub |-> stub_name])
                /\ UNCHANGED <<all_stubs, to_resolve>>
           ELSE IF ~proof.ok
           THEN /\ Fail([kind |-> "UnknownLabel", label |-> proof.label,
                         list |-> "proof-dependencies", stub |-> stub_name])
                /\ all_stubs' = [all_stubs EXCEPT
                                    ![stub_name].spec_dependencies = spec.deps]
                /\ UNCHANGED to_resolve
           ELSE /\ all_stubs' = [all_stubs EXCEPT
                                    ![stub_name].spec_dependencies = spec.deps,
                                    ![stub_name].proof_dependencies =
                                        IF IsSome(@) THEN Some(proof.deps) ELSE @]
                /\ to_resolve' = to_resolve \ {stub_name}
                /\ UNCHANGED <<pc, err>>
    /\ UNCHANGED <<blueprint_src_exists, web_tex, unread, project_config, all_envs,
                   all_standalone_proofs, env_i, seen_labels, label_counter,
                   label_to_stub_name, to_index, proof_i, warnings, stubs_file,
                   config_file, documents, earlier_run,
                   atoms_file, text_vars>>

\* fs::write(output_path, json)
WriteStubs ==
    /\ pc = "resolve"
    /\ to_resolve = {}
    /\ pc' = "config"
    /\ stubs_file' = Some(all_stubs)
    /\ UNCHANGED <<err, blueprint_src_exists, web_tex, unread, project_config,
                   all_envs, all_standalone_proofs, env_i, seen_labels,
                   label_counter, all_stubs, label_to_stub_name, to_index, proof_i,
                   to_resolve, warnings, config_file, documents, earlier_run,
                   atoms_file, text_vars>>

\* The write of .verilib/config.json, if any config value was found, and Ok(())
WriteConfig ==
    /\ pc = "config"
    /\ pc' = "done"
    /\ config_file' = (IF AnyConfig(project_config)
                       THEN Some(ConfigObject(project_config)) ELSE config_file)
    /\ UNCHANGED <<err, blueprint_src_exists, web_tex, unread, project_config,
                   all_envs, all_standalone_proofs, env_i, seen_labels,
                   label_counter, all_stubs, label_to_stub_name, to_index, proof_i,
                   to_resolve, warnings, stubs_file, documents, earlier_run,
                   atoms_file, text_vars>>

Next ==
    \/ Start
    \/ \E path \in PathPool : ReadFile(path)
    \/ EndWalk
    \/ ProcessEnv
    \/ EndPass1
    \/ \E stub_name \in DOMAIN all_stubs : IndexStub(stub_name)
    \/ EndIndex
    \/ MergeStandaloneProof
    \/ EndPass2
    \/ \E stub_name \in DOMAIN all_stubs : ResolveStub(stub_name)
    \/ WriteStubs
    \/ WriteConfig

Spec == Init /\ [][Next]_vars

\* a label with a '/' in it
SlashLabel == <<"c.tex", "/", "x">>

\* documents that set the macros of the project config, with labels and
\* references across them
ConfigDocPool ==
    { \* \home, one statement
      Doc([DefaultConfig EXCEPT !.home = Some("h1")], <<Thm(<<X>>, <<>>)>>, <<>>),
      \* another \home and \github, a statement whose label holds a '/', a proof
      \* with \proves
      Doc([DefaultConfig EXCEPT !.home = Some("h2"), !.github = Some("g")],
          <<Lem(<<SlashLabel>>, <<X>>)>>,
          <<StandaloneProof(<<X>>, NoProofData)>>),
      \* no macro, an unlabelled statement and a labelled one
      Doc(DefaultConfig, <<Thm(<<>>, <<>>), Lem(<<Y>>, <<>>)>>, <<>>),
      \* \dochome, no statement
      Doc([DefaultConfig EXCEPT !.dochome = Some("d")], <<>>, <<>>) }

\* the Config scraped from web.tex, when the file exists
ConfigWebTexPool ==
    { None,
      Some([DefaultConfig EXCEPT !.home = Some("h")]),
      Some([DefaultConfig EXCEPT !.github = Some("w")]) }

ConfigProjects ==
    UNION {[S -> ConfigDocPool] :
              S \in {T \in SUBSET PathPool : Cardinality(T) <= MaxDocs}}

\* run() on a project whose documents set the config macros
ConfigSpec == InitOver(ConfigProjects, ConfigWebTexPool) /\ [][Next]_vars

\* stub_name.split('/').next_back(): the part of the name after its last '/'
LastSegment(stub_name) ==
    LET slashes == {i \in 1..Len(stub_name) : stub_name[i] = "/"}
    IN  IF slashes = {} THEN stub_name
        ELSE SubSeq(stub_name, Max(slashes) + 1, Len(stub_name))

\* the Atom atomize builds from a stub
AtomOf(stub_name, stub) ==
    [display_name |-> LastSegment(stub_name),
     dependencies |-> stub.spec_dependencies \o
                      (IF IsSome(stub.proof_dependencies) THEN stub.proof_dependencies[1]
                       ELSE <<>>),
     stub_path    |-> stub.stub_path,
     stub_text    |-> stub.stub_spec]

\* The maps the loop of atomize::run over the stubs can leave in atoms: under
\* each label the atom of a stub with that label, the one the map's iteration
\* reaches last
AtomMaps(stubs) ==
    LET segments == {LastSegment(k) : k \in DOMAIN stubs}
        Winners  == {w \in [segments -> DOMAIN stubs] :
                        \A l \in segments : LastSegment(w[l]) = l}
    IN  {[l \in segments |-> AtomOf(w[l], stubs[w[l]])] : w \in Winners}

\* atomize::run once stubs.json is there: the stubs are read, the atoms written
Atomize ==
    /\ pc = "done"
    /\ IsSome(stubs_file)
    /\ atoms_file = None
    /\ \E atoms \in AtomMaps(stubs_file[1]) : atoms_file' = Some(atoms)
    /\ UNCHANGED <<pc, err, blueprint_src_exists, web_tex, unread, project_config,
                   all_envs, all_standalone_proofs, env_i, seen_labels,
                   label_counter, all_stubs, label_to_stub_name, to_index, proof_i,
                   to_resolve, warnings, stubs_file, config_file, documents,
                   earlier_run, text_vars>>

NextAtomize == Next \/ Atomize

\* the atomize command on a project without stubs.json: stubify::run, then the
\* atoms
AtomizeSpec == InitOver(ConfigProjects, ConfigWebTexPool) /\ [][NextAtomize]_vars

\* run() is one sequential call that is not interrupted: a step that can be
\* taken is taken
FairSpec == Spec /\ WF_vars(Next)

\* The command is invoked once more on the same project: run() starts afresh on
\* the same files, and what the finished run did is kept for comparison.  The
\* files a run wrote stay on disk.
RunAgain ==
    /\ pc \in {"done", "failed"}
    /\ earlier_run = None
    /\ earlier_run' = Some([ok     |-> pc = "done",
                            err    |-> err,
                            envs   |-> all_envs,
                            proofs |-> all_standalone_proofs,
                            stubs  |-> all_stubs])
    /\ pc' = "start"
    /\ err' = None
    /\ unread' = documents
    /\ project_config' = DefaultConfig
    /\ all_envs' = <<>>
    /\ all_standalone_proofs' = <<>>
    /\ env_i' = 0
    /\ seen_labels' = {}
    /\ label_counter' = 0
    /\ all_stubs' = EmptyMap
    /\ label_to_stub_name' = EmptyMap
    /\ to_index' = {}
    /\ proof_i' = 0
    /\ to_resolve' = {}
    /\ warnings' = <<>>
    /\ UNCHANGED <<blueprint_src_exists, web_tex, stubs_file, config_file, documents,
                   atoms_file, text_vars>>

NextTwoRuns == Next \/ RunAgain

\* two invocations of the command on one project
TwoRunSpec == Init /\ [][NextTwoRuns]_vars

----------------------------------------------------------------------------
(* The functions of the parser, each applied to a text.                    *)

\* the longest text given to strip_latex_comments, in characters
MaxLen == 5

\* the longest block given to extract_all_labels, in pieces
MaxBlockPieces == 5

\* the longest document given to parse_tex_file, in pieces
MaxDocPieces == 3

\* the pieces of a sequence of texts, joined
RECURSIVE Concat(_)
Concat(pieces) == IF pieces = <<>> THEN <<>> ELSE Head(pieces) \o Concat(Tail(pieces))

\* the texts of at most n pieces
TextsOf(pieces, n) == {Concat(ps) : ps \in UNION {[1..k -> pieces] : k \in 0..n}}

\* the characters that matter to strip_latex_comments, and one that does not
StripAlphabet == {"\\", "%", "\n", "a"}

StripTexts == UNION {[1..n -> StripAlphabet] : n \in 0..MaxLen}

\* the names of two nested environments
EnvA == <<"a">>

EnvB == <<"b">>

\* \label{label}
LabelOf(label) == LabelOpen \o label \o BraceClose

\* the pieces of a block: nested environments open and close, labels are declared
BlockPieces ==
    {BeginOf(EnvA), EndOf(EnvA), BeginOf(EnvB), EndOf(EnvB), LabelOf(X), LabelOf(Y)}

BlockTexts == TextsOf(BlockPieces, MaxBlockPieces)

\* the pieces of a document: two statements, a proof block with a label, \leanok
\* and \uses, a proof block with \proves, and what can lie between blocks
DocPieces ==
    { BeginOf(DEFAULT_ENVS[4]) \o LabelOf(X) \o EndOf(DEFAULT_ENVS[4]),
      BeginOf(DEFAULT_ENVS[2]) \o LabelOf(Z) \o UsesOpen \o X \o BraceClose
          \o EndOf(DEFAULT_ENVS[2]),
      BeginOf(ProofName) \o LabelOf(Y) \o LeanOk \o UsesOpen \o Z \o BraceClose
          \o EndOf(ProofName) \o <<"\n">>,
      BeginOf(ProofName) \o ProvesOpen \o X \o BraceClose \o MathlibOk
          \o EndOf(ProofName) \o <<"\n">>,
      <<" ", "\n">>,
      <<"t">>,
      <<"%">> }

DocTexts == TextsOf(DocPieces, MaxDocPieces)

\* the path the document is parsed under
DocPath == <<"a.tex">>

\* run() has not been called
RunIdle ==
    /\ pc = "start"
    /\ err = None
    /\ blueprint_src_exists = FALSE
    /\ web_tex = None
    /\ unread = EmptyMap
    /\ project_config = DefaultConfig
    /\ all_envs = <<>>
    /\ all_standalone_proofs = <<>>
    /\ env_i = 0
    /\ seen_labels = {}
    /\ label_counter = 0
    /\ all_stubs = EmptyMap
    /\ label_to_stub_name = EmptyMap
    /\ to_index = {}
    /\ proof_i = 0
    /\ to_resolve = {}
    /\ warnings = <<>>
    /\ stubs_file = None
    /\ config_file = None
    /\ documents = EmptyMap
    /\ earlier_run = None
    /\ atoms_file = None

run_vars == <<pc, err, blueprint_src_exists, web_tex, unread, project_config,
              all_envs, all_standalone_proofs, env_i, seen_labels, label_counter,
              all_stubs, label_to_stub_name, to_index, proof_i, to_resolve,
              warnings, stubs_file, config_file, documents, earlier_run, atoms_file>>

\* no function has been applied to the text
NoOutput ==
    /\ stripped_text = None
    /\ top_labels = None
    /\ parsed_envs = None
    /\ standalone_proofs = None

StripInit == RunIdle /\ NoOutput /\ text \in StripTexts /\ env_types = DEFAULT_ENVS

StripComments ==
    /\ stripped_text = None
    /\ stripped_text' = Some(strip_latex_comments(text))
    /\ UNCHANGED <<run_vars, text, env_types, top_labels, parsed_envs, standalone_proofs>>

\* strip_latex_comments applied to a text
StripSpec == StripInit /\ [][StripComments]_vars

LabelInit == RunIdle /\ NoOutput /\ text \in BlockTexts /\ env_types = DEFAULT_ENVS

ExtractAllLabels ==
    /\ top_labels = None
    /\ top_labels' = Some(extract_all_labels(text))
    /\ UNCHANGED <<run_vars, text, env_types, stripped_text, parsed_envs, standalone_proofs>>

\* extract_all_labels applied to the text of a block
LabelSpec == LabelInit /\ [][ExtractAllLabels]_vars

ParseInit == RunIdle /\ NoOutput /\ text \in DocTexts /\ env_types = DEFAULT_ENVS

\* let envs = parse_tex_file(&text, relative_path, &env_types)
ParseTexFile ==
    /\ parsed_envs = None
    /\ parsed_envs' = Some(parse_tex_file(text, DocPath, env_types))
    /\ UNCHANGED <<run_vars, text, env_types, stripped_text, top_labels, standalone_proofs>>

\* let standalone_proofs = find_standalone_proofs(&text, relative_path)
FindStandaloneProofs ==
    /\ parsed_envs # None
    /\ standalone_proofs = None
    /\ standalone_proofs' = Some(find_standalone_proofs(text, DocPath))
    /\ UNCHANGED <<run_vars, text, env_types, stripped_text, top_labels, parsed_envs>>

ParseNext == ParseTexFile \/ FindStandaloneProofs

\* a document parsed as the loop over the files of run() parses it
ParseSpec == ParseInit /\ [][ParseNext]_vars

\* the projects of one document, given by its text: what the loop over the
\* files collects for it
TextProjects ==
    {EmptyMap} \union
    {DocPath :> Doc(DefaultConfig,
                    parse_tex_file(t, DocPath, DEFAULT_ENVS),
                    find_standalone_proofs(t, DocPath)) : t \in DocTexts}

\* run() on a project of one document, from its text to the written map
TextRunSpec == InitOver(TextProjects, {None}) /\ [][Next]_vars

\* the longest text of bare \begin and \end given to parse_tex_file, in pieces
MaxOrderPieces == 4

\* the pieces of a text in which statements of two types can follow one
\* another, lie inside one another, or stay open
OrderPieces ==
    { BeginOf(DEFAULT_ENVS[4]), EndOf(DEFAULT_ENVS[4]),
      BeginOf(DEFAULT_ENVS[2]), EndOf(DEFAULT_ENVS[2]), <<"\n">> }

OrderTexts == TextsOf(OrderPieces, MaxOrderPieces)

\* s, last element first
Reverse(s) == [i \in 1..Len(s) |-> s[Len(s) + 1 - i]]

\* lists of block types as parse_thms_option can return them: the default, and
\* lists read off a thms option, in either order, also with a name written twice
EnvTypeLists ==
    { DEFAULT_ENVS, Reverse(DEFAULT_ENVS),
      <<DEFAULT_ENVS[2], DEFAULT_ENVS[4]>>, <<DEFAULT_ENVS[4], DEFAULT_ENVS[2]>>,
      <<DEFAULT_ENVS[4], DEFAULT_ENVS[2], DEFAULT_ENVS[4]>>,
      <<DEFAULT_ENVS[2], DEFAULT_ENVS[4], DEFAULT_ENVS[4]>> }

OrderInit ==
    RunIdle /\ NoOutput /\ text \in OrderTexts /\ env_types \in EnvTypeLists

\* parse_tex_file applied to a text under a list of block types
OrderSpec == OrderInit /\ [][ParseTexFile]_vars

----------------------------------------------------------------------------
(* Vocabulary of the properties. *)

\* the statements pass 1 has registered so far
Registered == 1..env_i

\* run() got past pass 1 without an error
Pass1Succeeded ==
    \/ pc \in {"index", "pass2", "resolve", "config", "done"}
    \/ pc = "failed" /\ err[1].kind = "UnknownLabel"

\* the occurrences of labels in the parsed statements: <<statement, position>>
LabelOccurrences ==
    UNION {{<<i, a>> : a \in 1..Len(all_envs[i].labels)} : i \in 1..Len(all_envs)}

\* the entry of all_stubs made from the parsed statement env, if there is one
StubsOf(env) ==
    {k \in DOMAIN all_stubs :
        /\ all_stubs[k].stub_path = env.relative_path
        /\ all_stubs[k].stub_spec = env.spec_lines
        /\ all_stubs[k].stub_type = env.env_type}

\* path/label, written out
PathSlashLabel(path, label) == path \o <<"/">> \o label

----------------------------------------------------------------------------
(* C1.  A label text that occurs more than once among the label lists of   *)
(* the parsed statements, in two statements or twice in one statement,     *)
(* aborts the run: a run that ends in success has pairwise distinct labels.*)
C1_SuccessImpliesDistinctLabels ==
    pc = "done" =>
        \A o1, o2 \in LabelOccurrences :
            o1 # o2 => all_envs[o1[1]].labels[o1[2]] # all_envs[o2[1]].labels[o2[2]]

\* the labels some entity owns
OwnedLabels == UNION {Range(all_stubs[k].labels) : k \in DOMAIN all_stubs}

\* the entries of the two dependency lists of a stub
DepsOf(stub) ==
    Range(stub.spec_dependencies) \union
    (IF IsSome(stub.proof_dependencies) THEN Range(stub.proof_dependencies[1]) ELSE {})

\* the resolve pass has visited the entity k
Resolved(k) == pc \in {"config", "done"} \/ (pc = "resolve" /\ k \notin to_resolve)

\* the resolve pass is about to start and every reference names an owned label
C2_Precondition ==
    /\ pc = "resolve"
    /\ to_resolve = DOMAIN all_stubs
    /\ \A k \in DOMAIN all_stubs : DepsOf(all_stubs[k]) \subseteq OwnedLabels

(* C2.  Once the resolve pass has visited an entity, every entry of its    *)
(* spec-dependencies and proof-dependencies is a key of the entity map, and *)
(* so is every entry of the map that is written; and when no reference     *)
(* names an undeclared label the resolve pass terminates in success.       *)
C2_ResolveClosesReferences ==
    /\ [](\A k \in DOMAIN all_stubs :
            Resolved(k) => DepsOf(all_stubs[k]) \subseteq DOMAIN all_stubs)
    /\ [](IsSome(stubs_file) =>
            \A k \in DOMAIN stubs_file[1] :
                DepsOf(stubs_file[1][k]) \subseteq DOMAIN stubs_file[1])
    /\ (C2_Precondition ~> (pc = "config" /\ to_resolve = {}))

\* a successful run resolved a spec-dependency and a proof-dependency that a
\* standalone proof brought
C2_Witness ==
    /\ pc = "done"
    /\ \E k \in DOMAIN all_stubs : all_stubs[k].spec_dependencies # <<>>
    /\ \E k \in DOMAIN all_stubs :
          /\ all_stubs[k].stub_proof = Some(LineRange(14, 15))
          /\ IsSome(all_stubs[k].proof_dependencies)

\* the references of entities the resolve pass has yet to visit that name a
\* label no entity owns: <<stub name, label>>
UnownedRefs ==
    UNION {{<<k, l>> : l \in DepsOf(all_stubs[k]) \ OwnedLabels} : k \in to_resolve}

(* C3.  If an entry of an entity's spec-dependencies or proof-dependencies  *)
(* (also one merged in from a standalone proof) is a label no entity owns, *)
(* the run fails with an Unknown-label error that names such a label and   *)
(* the entity it is in, and nothing has been written.                      *)
C3_UnknownLabelFails ==
    /\ (pc = "resolve" /\ UnownedRefs # {}) ~> (pc = "failed")
    /\ [][(pc = "resolve" /\ UnownedRefs # {}) => pc' \in {"resolve", "failed"}]_vars
    /\ [][(pc = "resolve" /\ pc' = "failed") =>
            /\ err'[1].kind = "UnknownLabel"
            /\ <<err'[1].stub, err'[1].label>> \in UnownedRefs
            /\ err'[1].label \in
                  (IF err'[1].list = "spec-dependencies"
                   THEN Range(all_stubs[err'[1].stub].spec_dependencies)
                   ELSE Range(all_stubs[err'[1].stub].proof_dependencies[1]))
            /\ stubs_file' = None
            /\ config_file' = None]_vars

\* the run failed on a proof-dependency that a standalone proof had merged in
C3_Witness ==
    /\ pc = "failed"
    /\ err[1].kind = "UnknownLabel"
    /\ err[1].list = "proof-dependencies"
    /\ \A i \in 1..Len(all_envs) : all_envs[i].proof_lines = None
    /\ all_stubs[err[1].stub].stub_proof = Some(LineRange(14, 15))
    /\ all_stubs[err[1].stub].proof_dependencies = Some(<<err[1].label>>)

(* C4.  References are resolved only after every statement of every        *)
(* document is registered: a \uses of a label that a statement written     *)
(* later, in the same or a later document, declares resolves to that       *)
(* statement's entity and never fails as an unknown label.                 *)
C4_ForwardReferencesResolve ==
    /\ pc \in {"index", "pass2", "resolve", "config", "done"} =>
          DOMAIN unread = {} /\ env_i = Len(all_envs)
    /\ (pc = "failed" /\ err[1].kind = "UnknownLabel") =>
          \A i \in 1..Len(all_envs) : err[1].label \notin Range(all_envs[i].labels)
    /\ pc \in {"config", "done"} =>
          \A i, j \in 1..Len(all_envs) :
              LET ei == all_envs[i]
                  ej == all_envs[j]
                  ki == PathSlashLabel(ei.relative_path, ei.labels[Len(ei.labels)])
                  kj == PathSlashLabel(ej.relative_path, ej.labels[Len(ej.labels)])
              IN  ei.labels # <<>> =>
                      \A p \in 1..Len(ei.spec_dependencies) :
                          ei.spec_dependencies[p] \in Range(ej.labels) =>
                              all_stubs[ki].spec_dependencies[p] = kj

\* a successful run in which the first statement uses a label that a statement
\* of a document read later declares
C4_Witness ==
    /\ pc = "done"
    /\ \E j \in 2..Len(all_envs) :
          /\ Len(all_envs[1].labels) = 1
          /\ all_envs[1].relative_path # all_envs[j].relative_path
          /\ Range(all_envs[1].spec_dependencies) \cap Range(all_envs[j].labels) # {}
          /\ all_stubs[PathSlashLabel(all_envs[1].relative_path,
                                      all_envs[1].labels[1])].spec_dependencies[1]
                \in DOMAIN all_stubs

(* C5.  Every entity is keyed by <relative path>/<L> and has label L, L the *)
(* last element of the statement's label list (its own labels, then those  *)
(* of the proof attached by adjacency).                                    *)
C5_KeyedByLastLabel ==
    /\ \A k \in DOMAIN all_stubs :
          LET s == all_stubs[k]
          IN  /\ Len(s.labels) >= 1
              /\ s.label = s.labels[Len(s.labels)]
              /\ k = PathSlashLabel(s.stub_path, s.labels[Len(s.labels)])
    /\ \A i \in Registered :
          LET env == all_envs[i]
              key == PathSlashLabel(env.relative_path, env.labels[Len(env.labels)])
          IN  env.labels # <<>> =>
                  /\ key \in DOMAIN all_stubs
                  /\ all_stubs[key].labels = env.labels
                  /\ all_stubs[key].stub_spec = env.spec_lines

\* a statement labelled y whose attached proof is labelled z is keyed a.tex/z
C5_Witness ==
    /\ <<"a.tex", "/", "z">> \in DOMAIN all_stubs
    /\ all_stubs[<<"a.tex", "/", "z">>].labels = <<Y, Z>>
    /\ all_stubs[<<"a.tex", "/", "z">>].stub_proof # None

(* C6.  Every entity pass 1 inserts carries at least one label; a statement *)
(* with no written label carries exactly one, synthesized, label.          *)
C6_LabelsNeverEmpty ==
    /\ \A k \in DOMAIN all_stubs : Len(all_stubs[k].labels) >= 1
    /\ \A i \in Registered :
          /\ StubsOf(all_envs[i]) # {}
          /\ \A k \in StubsOf(all_envs[i]) :
                IF all_envs[i].labels = <<>>
                THEN /\ Len(all_stubs[k].labels) = 1
                     /\ all_stubs[k].labels[1] \in seen_labels
                ELSE all_stubs[k].labels = all_envs[i].labels

\* an unlabelled statement was registered with the label a0000000000
C6_Witness ==
    \E i \in Registered :
        /\ all_envs[i].labels = <<>>
        /\ \E k \in StubsOf(all_envs[i]) : all_stubs[k].labels = <<A0>>

\* every statement has exactly one written label, no two the same, and no proofs
C8_Precondition ==
    /\ all_standalone_proofs = <<>>
    /\ \A i \in 1..Len(all_envs) :
          Len(all_envs[i].labels) = 1 /\ all_envs[i].proof_lines = None
    /\ \A i, j \in 1..Len(all_envs) :
          i # j => all_envs[i].labels[1] # all_envs[j].labels[1]

(* C8.  Round trip: N statements with one written label each, all distinct, *)
(* and no proofs give, in a successful run, exactly N entities, keyed      *)
(* <relative path of the document>/<label>.                                *)
C8_RoundTrip ==
    (pc = "done" /\ C8_Precondition) =>
        LET keys == {PathSlashLabel(all_envs[i].relative_path, all_envs[i].labels[1]) :
                        i \in 1..Len(all_envs)}
        IN  /\ Cardinality(DOMAIN all_stubs) = Len(all_envs)
            /\ DOMAIN all_stubs = keys
            /\ DOMAIN stubs_file[1] = keys

\* a successful run over three single-label statements in two documents
C8_Witness ==
    /\ pc = "done"
    /\ C8_Precondition
    /\ Len(all_envs) = 3
    /\ all_envs[1].relative_path # all_envs[3].relative_path

(* C9.  A run that ends in a fatal error has written neither the stubs file *)
(* nor the config file: a file is written only once the walk, pass 1,      *)
(* pass 2 and the resolve pass have completed without error.               *)
C9_NoOutputOnFatalError ==
    /\ pc = "failed" =>
          /\ err[1].kind \in {"MissingDirectory", "DuplicateLabel", "UnknownLabel"}
          /\ stubs_file = None
          /\ config_file = None
    /\ (stubs_file # None \/ config_file # None) =>
          /\ pc \in {"config", "done"}
          /\ DOMAIN unread = {}
          /\ env_i = Len(all_envs)
          /\ proof_i = Len(all_standalone_proofs)
          /\ to_resolve = {}

\* an unknown dependency label aborted a run that had config values to write
C9_Witness ==
    /\ pc = "failed"
    /\ err[1].kind = "UnknownLabel"
    /\ AnyConfig(project_config)

\* 'a' followed by the ten decimal digits of c, c < 10^10
Token(c) ==
    <<"a">> \o [i \in 1..10 |->
                   <<"0", "1", "2", "3", "4", "5", "6", "7", "8", "9">>[((c \div 10^(10 - i)) % 10) + 1]]

A1 == <<"a", "0", "0", "0", "0", "0", "0", "0", "0", "0", "1">>

(* C7.  Pass 1 gives an unlabelled statement the token 'a' followed by the  *)
(* ten-digit zero-padded value c, c the smallest value not below the       *)
(* counter whose token is not in the seen set, and leaves the counter at   *)
(* c + 1; the first token of a run with an empty seen set is a0000000000   *)
(* and the next a0000000001; the counter never decreases.                  *)
C7_LabelSynthesis ==
    [][/\ label_counter' >= label_counter
       /\ (pc = "pass1" /\ env_i' = env_i + 1 /\ all_envs[env_i + 1].labels = <<>>) =>
             /\ \E c \in label_counter..(label_counter + Cardinality(seen_labels)) :
                   /\ Token(c) \notin seen_labels
                   /\ \A d \in label_counter..(c - 1) : Token(d) \in seen_labels
                   /\ label_counter' = c + 1
                   /\ seen_labels' = seen_labels \union {Token(c)}
                   /\ \E k \in DOMAIN all_stubs' \ DOMAIN all_stubs :
                         /\ all_stubs'[k].labels = <<Token(c)>>
                         /\ all_stubs'[k].label = Token(c)
             /\ (seen_labels = {} /\ label_counter = 0) => seen_labels' = {A0}
             /\ (seen_labels = {A0} /\ label_counter = 1) => seen_labels' = {A0, A1}
      ]_vars

\* a0000000000 was written as a label, so the unlabelled statement after it got
\* a0000000001 and the counter stands at 2
C7_Witness ==
    /\ label_counter = 2
    /\ \E i \in Registered : all_envs[i].labels = <<A0>>
    /\ \E i \in Registered :
          /\ all_envs[i].labels = <<>>
          /\ \E k \in StubsOf(all_envs[i]) : all_stubs[k].labels = <<A1>>

(* C10.  In pass 2 a label of a \proves list that no entity owns only       *)
(* produces a warning: the run goes on without error, no entity changes on *)
(* its account, and the entities that own the other labels of the list,    *)
(* and those later standalone proofs name, still get the proof's span.     *)
C10_UnknownProvesLabelIsSkipped ==
    [][(pc = "pass2" /\ proof_i' = proof_i + 1) =>
          LET path       == all_standalone_proofs[proof_i + 1][1]
              proof      == all_standalone_proofs[proof_i + 1][2]
              NotOwned(l) == l \notin OwnedLabels
              unknown    == SelectSeq(proof.proves_labels, NotOwned)
          IN  /\ pc' = "pass2"
              /\ err' = None
              /\ warnings' = warnings \o
                     [i \in 1..Len(unknown) |-> [label |-> unknown[i], path |-> path]]
              /\ DOMAIN all_stubs' = DOMAIN all_stubs
              /\ \A k \in DOMAIN all_stubs :
                    IF Range(all_stubs[k].labels) \cap Range(proof.proves_labels) = {}
                    THEN all_stubs'[k] = all_stubs[k]
                    ELSE all_stubs'[k].stub_proof = Some(proof.lines)
      ]_vars

\* a successful run that warned about the first label of a \proves list, merged
\* the proof into the owner of the second, and merged the next proof as well
C10_Witness ==
    /\ pc = "done"
    /\ Len(warnings) = 1
    /\ warnings[1].label = Z
    /\ \E k \in DOMAIN all_stubs :
          /\ all_stubs[k].stub_proof = Some(LineRange(14, 15))
          /\ IsSome(all_stubs[k].proof_dependencies)

----------------------------------------------------------------------------
(* Pass 2: what the merges leave in an entity. *)

\* the number of standalone proofs pass 2 has merged
Merged == IF pc = "pass2" THEN proof_i ELSE Len(all_standalone_proofs)

\* the merged standalone proofs whose \proves list names a label of entity k,
\* by their position in traversal order
Targeting(k) ==
    {i \in 1..Merged :
        Range(all_standalone_proofs[i][2].proves_labels) \cap Range(all_stubs[k].labels) # {}}

\* the parsed statement entity k was made from
OriginEnv(k) == all_envs[CHOOSE i \in 1..Len(all_envs) : k \in StubsOf(all_envs[i])]

\* the proof-side flags of an entity and the StandaloneProof field behind each
ProofFlags ==
    {<<"proof_ok", "proof_ok">>, <<"proof_mathlib_ok", "mathlib_ok">>,
     <<"proof_not_ready", "not_ready">>}

\* the proof-side lists of an entity and the StandaloneProof field behind each
ProofLists ==
    {<<"proof_discussion", "discussion">>, <<"proof_dependencies", "dependencies">>,
     <<"proof_lean_names", "lean_names">>}

(* C11.  In pass 2 the flags proof-ok, proof-mathlib-ok and proof-not-ready *)
(* of an entity are monotone: a merge never takes a flag that is true (from *)
(* the attached proof or an earlier standalone proof) to false or absent,  *)
(* never stores false, and sets the flag when the merged proof has the     *)
(* macro.                                                                  *)
C11_FlagsMonotone ==
    [][(pc = "pass2" /\ proof_i' = proof_i + 1) =>
          LET proof == all_standalone_proofs[proof_i + 1][2]
          IN  \A k \in DOMAIN all_stubs : \A f \in ProofFlags :
                  /\ all_stubs[k][f[1]] = Some(TRUE) => all_stubs'[k][f[1]] = Some(TRUE)
                  /\ all_stubs'[k][f[1]] \in {None, Some(TRUE)}
                  /\ (proof[f[2]] /\ Range(proof.proves_labels) \cap
                                         Range(all_stubs[k].labels) # {})
                        => all_stubs'[k][f[1]] = Some(TRUE)
      ]_vars

\* a standalone proof with \leanok was merged into an entity without an attached
\* proof, then one without \leanok: the span is the later one's, the flag is set
C11_Witness ==
    /\ pc = "pass2"
    /\ \A i \in 1..Len(all_envs) : all_envs[i].proof_ok = None
    /\ \E k \in DOMAIN all_stubs :
          /\ Cardinality(Targeting(k)) = 2
          /\ all_stubs[k].stub_proof = Some(LineRange(11, 12))
          /\ all_stubs[k].proof_ok = Some(TRUE)

(* C12.  Once standalone proofs have been merged, the proof span of every  *)
(* entity that a merged proof names is the span of the last such proof in  *)
(* traversal order, whatever span the attached proof or an earlier         *)
(* standalone proof had given it.                                          *)
C12_SpanOfLastProof ==
    pc \in {"pass2", "resolve", "config", "done"} =>
        \A k \in DOMAIN all_stubs :
            Targeting(k) # {} =>
                all_stubs[k].stub_proof =
                    Some(all_standalone_proofs[Max(Targeting(k))][2].lines)

\* a successful run in which three standalone proofs of two documents named
\* the same entity: its span is that of the one read last
C12_Witness ==
    /\ pc = "done"
    /\ \E k \in DOMAIN all_stubs :
          /\ Cardinality(Targeting(k)) = 3
          /\ all_standalone_proofs[1][1] # all_standalone_proofs[2][1]
          /\ all_stubs[k].stub_proof = Some(LineRange(14, 15))

\* pass 2 has merged every standalone proof and the resolve pass has not begun
AfterPass2 == pc = "pass2" /\ proof_i = Len(all_standalone_proofs)

(* C13, as claimed.  After pass 2 the proof-discussion, proof-dependencies  *)
(* and proof-lean-names of an entity that a standalone proof names are     *)
(* those of the last such proof, also when that proof's list is empty.     *)
C13_ListsOfLastProof ==
    AfterPass2 =>
        \A k \in DOMAIN all_stubs : \A f \in ProofLists :
            Targeting(k) # {} =>
                LET last == all_standalone_proofs[Max(Targeting(k))][2]
                IN  all_stubs[k][f[1]] \in {NonEmptyOpt(last[f[2]]), Some(last[f[2]])}

\* the merged proofs that name entity k and bring a non-empty list g
TargetingWith(k, g) == {i \in Targeting(k) : all_standalone_proofs[i][2][g] # <<>>}

(* C13, amended.  While pass 2 merges, each of the proof-discussion,        *)
(* proof-dependencies and proof-lean-names of an entity is the list of the *)
(* last merged standalone proof that names the entity and has a non-empty  *)
(* list of that kind; if there is none, it is what the parse gave.         *)
C13_ListsOfLastNonEmptyProof ==
    pc = "pass2" =>
        \A k \in DOMAIN all_stubs : \A f \in ProofLists :
            IF TargetingWith(k, f[2]) # {}
            THEN all_stubs[k][f[1]] =
                     Some(all_standalone_proofs[Max(TargetingWith(k, f[2]))][2][f[2]])
            ELSE all_stubs[k][f[1]] = OriginEnv(k)[f[1]]

\* three standalone proofs name an entity, the first with a \discussion, the
\* others without: the entity has the first one's
C13_Witness ==
    /\ AfterPass2
    /\ \E k \in DOMAIN all_stubs :
          /\ Cardinality(Targeting(k)) = 3
          /\ all_standalone_proofs[Max(Targeting(k))][2].discussion = <<>>
          /\ all_stubs[k].proof_discussion = Some(<<Seven>>)

----------------------------------------------------------------------------
(* Two runs on the same documents. *)

\* both runs are over
BothRunsOver == IsSome(earlier_run) /\ pc \in {"done", "failed"}

\* the second run read the documents in another order than the first
OtherOrder ==
    all_envs # earlier_run[1].envs \/ all_standalone_proofs # earlier_run[1].proofs

\* every statement has a written label and no label text is written twice
C14_Precondition ==
    /\ \A i \in 1..Len(all_envs) : all_envs[i].labels # <<>>
    /\ \A o1, o2 \in LabelOccurrences :
          o1 # o2 => all_envs[o1[1]].labels[o1[2]] # all_envs[o2[1]].labels[o2[2]]

(* C14, as claimed.  With no duplicate label and no unlabelled statement,   *)
(* two successful runs on the same documents end with the same entity map, *)
(* in whatever order each read the documents.                              *)
C14_OrderIndependent ==
    (BothRunsOver /\ pc = "done" /\ earlier_run[1].ok /\ C14_Precondition) =>
        all_stubs = earlier_run[1].stubs

\* the standalone proofs that name one entity all lie in one document
ProofsOfOneDocument ==
    \A k \in DOMAIN all_stubs : \A i, j \in Targeting(k) :
        all_standalone_proofs[i][1] = all_standalone_proofs[j][1]

(* C14, amended.  With no duplicate label, no unlabelled statement and no   *)
(* entity named by standalone proofs of two different documents, two       *)
(* successful runs on the same documents end with the same entity map, in  *)
(* whatever order each read the documents.                                 *)
C14_OrderIndependentOneDocument ==
    (BothRunsOver /\ pc = "done" /\ earlier_run[1].ok /\ C14_Precondition
        /\ ProofsOfOneDocument) =>
        all_stubs = earlier_run[1].stubs

\* two successful runs that read two documents with statements in different
\* orders, one of the documents with a standalone proof that was merged
C14_Witness ==
    /\ BothRunsOver
    /\ pc = "done"
    /\ earlier_run[1].ok
    /\ C14_Precondition
    /\ ProofsOfOneDocument
    /\ all_envs # earlier_run[1].envs
    /\ \E k \in DOMAIN all_stubs : Targeting(k) # {}
    /\ all_stubs = earlier_run[1].stubs

\* a run that ended with a Duplicate-label error
DuplicateAbort(p, e) == p = "failed" /\ e[1].kind = "DuplicateLabel"

(* C15.  Whether a project is rejected for a duplicate label does not depend *)
(* on the order in which the documents are read: of two runs on the same   *)
(* documents either both end with a Duplicate-label error or neither does. *)
C15_AcceptanceOrderIndependent ==
    BothRunsOver =>
        (DuplicateAbort(pc, err) <=>
            DuplicateAbort(IF earlier_run[1].ok THEN "done" ELSE "failed",
                           earlier_run[1].err))

(* C20.  Two runs that read the same documents in the same order either     *)
(* both abort or both succeed, and if they succeed they end with the same  *)
(* entity map, whatever the order in which each iterated over its hash maps.*)
C20_Deterministic ==
    (BothRunsOver /\ ~OtherOrder) =>
        /\ (pc = "done") = earlier_run[1].ok
        /\ pc = "done" => all_stubs = earlier_run[1].stubs
        /\ DuplicateAbort(pc, err) => err = earlier_run[1].err

\* two successful runs in the same order over three entities, one with two
\* resolved references
C20_Witness ==
    /\ BothRunsOver
    /\ ~OtherOrder
    /\ pc = "done"
    /\ Cardinality(DOMAIN all_stubs) = 3
    /\ \E k \in DOMAIN all_stubs : Len(all_stubs[k].spec_dependencies) = 2

----------------------------------------------------------------------------
(* The adjacency of a proof block to a statement. *)

\* the comment-stripped_text text parse_tex_file works on
Stripped == strip_latex_comments(text)

\* the statements parse_tex_file finds in it, in the order of the text
Statements == SortedMatches(Stripped, DEFAULT_ENVS)

\* where the next \begin{proof} after position from starts, 0 if there is none
NextProofBegin(from) == Find(Stripped, from, BeginOf(ProofName))

\* nothing but whitespace lies from position from up to position p
OnlyWhitespaceBetween(from, p) == \A j \in from..(p - 1) : Stripped[j] \in Whitespace

\* where the \end{proof} of the proof block that begins at p starts, 0 if none
ProofEnd(p) == Find(Stripped, p + Len(BeginOf(ProofName)), EndOf(ProofName))

\* the text and the lines of the proof block that begins at p
ProofBlockContent(p) == SubSeq(Stripped, p + Len(BeginOf(ProofName)), ProofEnd(p) - 1)

ProofBlockLines(p) ==
    LineRange(byte_pos_to_line(Stripped, p),
              byte_pos_to_line(Stripped, ProofEnd(p) + Len(EndOf(ProofName)) - 1))

\* the parsed statement has nothing of a proof
NoProofSide(env) ==
    /\ env.proof_lines = None
    /\ env.proof_ok = None
    /\ env.proof_mathlib_ok = None
    /\ env.proof_not_ready = None
    /\ env.proof_discussion = None
    /\ env.proof_dependencies = None
    /\ env.proof_lean_names = None

(* C16.  Adjacency rule: a statement whose \end{type} is followed by        *)
(* anything but whitespace before the next \begin{proof} (in the text      *)
(* without its comments), or by no proof at all, gets no proof span, no    *)
(* proof-side field and no label of that proof.                            *)
C16_AdjacencyRule ==
    parsed_envs # None =>
        /\ Len(parsed_envs[1]) = Len(Statements)
        /\ \A i \in 1..Len(Statements) :
              LET p == NextProofBegin(Statements[i].end_pos)
              IN  (p = 0 \/ ~OnlyWhitespaceBetween(Statements[i].end_pos, p)) =>
                      /\ NoProofSide(parsed_envs[1][i])
                      /\ parsed_envs[1][i].labels =
                             extract_all_labels(Statements[i].env_content)

\* a theorem, the letter t, then a labelled proof with \leanok: the one parsed
\* statement has its own label and no proof
C16_Witness ==
    /\ parsed_envs # None
    /\ Len(parsed_envs[1]) = 1
    /\ MatchAt(Stripped, Statements[1].end_pos, <<"t">>)
    /\ MatchAt(Stripped, Statements[1].end_pos + 1, BeginOf(ProofName))
    /\ Contains(ProofBlockContent(Statements[1].end_pos + 1), LeanOk)
    /\ parsed_envs[1][1].labels = <<X>>
    /\ parsed_envs[1][1].proof_lines = None

\* a proof block follows the statement that ends before position from, with
\* nothing but whitespace between them
AdjacentProof(from) ==
    /\ NextProofBegin(from) # 0
    /\ OnlyWhitespaceBetween(from, NextProofBegin(from))
    /\ ProofEnd(NextProofBegin(from)) # 0

(* C17.  Back-reference override: a proof block with a non-empty \proves    *)
(* list that follows a statement with nothing but whitespace between is    *)
(* not attached to it (no span, no proof-side field, no label) and is      *)
(* among the standalone proofs find_standalone_proofs returns; no proof    *)
(* block is both attached and returned as a standalone proof.              *)
C17_BackReferenceOverride ==
    (parsed_envs # None /\ standalone_proofs # None) =>
        /\ \A i \in 1..Len(Statements) :
              LET p == NextProofBegin(Statements[i].end_pos)
              IN  (AdjacentProof(Statements[i].end_pos)
                      /\ extract_proves(ProofBlockContent(p)) # <<>>) =>
                      /\ NoProofSide(parsed_envs[1][i])
                      /\ parsed_envs[1][i].labels =
                             extract_all_labels(Statements[i].env_content)
                      /\ \E k \in 1..Len(standalone_proofs[1]) :
                            /\ standalone_proofs[1][k].lines = ProofBlockLines(p)
                            /\ standalone_proofs[1][k].proves_labels =
                                   extract_proves(ProofBlockContent(p))
        /\ \A i \in 1..Len(parsed_envs[1]) : \A k \in 1..Len(standalone_proofs[1]) :
              parsed_envs[1][i].proof_lines # Some(standalone_proofs[1][k].lines)

\* a theorem and right after it a proof with \proves{x} and \mathlibok: the
\* statement has no proof, the proof is the one standalone proof
C17_Witness ==
    /\ parsed_envs # None
    /\ standalone_proofs # None
    /\ Len(parsed_envs[1]) = 1
    /\ MatchAt(Stripped, Statements[1].end_pos, BeginOf(ProofName))
    /\ parsed_envs[1][1].proof_lines = None
    /\ Len(standalone_proofs[1]) = 1
    /\ standalone_proofs[1][1].proves_labels = <<X>>
    /\ standalone_proofs[1][1].mathlib_ok

----------------------------------------------------------------------------
(* Comments and line numbers. *)

\* the number of newline characters of a text
Newlines(s) == Cardinality({i \in 1..Len(s) : s[i] = "\n"})

\* the characters of line l of a text, without its newline
LineOfText(s, l) ==
    LET idx == {i \in 1..Len(s) : s[i] # "\n" /\ byte_pos_to_line(s, i) = l}
    IN  IF idx = {} THEN <<>> ELSE SubSeq(s, Min(idx), Max(idx))

IsPrefix(a, b) == Len(a) <= Len(b) /\ SubSeq(b, 1, Len(a)) = a

(* C18.  strip_latex_comments keeps the number of newlines, and what it     *)
(* keeps of a line is a prefix of that line, so every character that is    *)
(* kept stays on its line; the empty text gives the empty text.            *)
C18_NewlinesPreserved ==
    stripped_text # None =>
        /\ Newlines(stripped_text[1]) = Newlines(text)
        /\ \A l \in 1..(Newlines(text) + 1) :
              IsPrefix(LineOfText(stripped_text[1], l), LineOfText(text, l))
        /\ text = <<>> => stripped_text[1] = <<>>

\* an escaped percent sign, a comment and the newline that ends it
C18_Witness ==
    /\ text = <<"\\", "%", "%", "a", "\n">>
    /\ stripped_text = Some(<<"\\", "%", "\n">>)

----------------------------------------------------------------------------
(* Labels and nested environments. *)

\* the argument of the macro that starts at position i: up to the next brace
ArgAt(s, i, open) ==
    LET close == Min({j \in (i + Len(open))..Len(s) : s[j] = "}"} \union {Len(s) + 1})
    IN  SubSeq(s, i + Len(open), close - 1)

\* A scan that keeps the stack of the environments that are open: ok tells
\* whether every \end{X} closes the innermost open \begin{X} and none is left
\* open; labels are the \label{..} met while no environment is open
RECURSIVE NestingScan(_, _, _)
NestingScan(s, i, open_envs) ==
    IF i > Len(s) THEN [ok |-> open_envs = <<>>, labels |-> <<>>]
    ELSE IF MatchAt(s, i, BeginOpen)
    THEN LET name == ArgAt(s, i, BeginOpen)
         IN  NestingScan(s, i + Len(BeginOpen) + Len(name) + 1, <<name>> \o open_envs)
    ELSE IF MatchAt(s, i, EndOpen)
    THEN LET name == ArgAt(s, i, EndOpen)
         IN  IF open_envs # <<>> /\ Head(open_envs) = name
             THEN NestingScan(s, i + Len(EndOpen) + Len(name) + 1, Tail(open_envs))
             ELSE [ok |-> FALSE, labels |-> <<>>]
    ELSE IF MatchAt(s, i, LabelOpen)
    THEN LET label == ArgAt(s, i, LabelOpen)
             rest  == NestingScan(s, i + Len(LabelOpen) + Len(label) + 1, open_envs)
         IN  [ok     |-> rest.ok,
              labels |-> IF open_envs = <<>> THEN <<label>> \o rest.labels
                         ELSE rest.labels]
    ELSE NestingScan(s, i + 1, open_envs)

(* C19.  For a block whose nested environments are properly nested, the    *)
(* list extract_all_labels returns holds the labels declared outside every *)
(* nested environment, in order of appearance, and no label declared       *)
(* inside one, also not inside one that contains another of the same name. *)
C19_OnlyTopLevelLabels ==
    (top_labels # None /\ NestingScan(text, 1, <<>>).ok) =>
        top_labels[1] = NestingScan(text, 1, <<>>).labels

----------------------------------------------------------------------------
(* The label index and the canonical names. *)

\* the loop that builds label_to_stub_name has run to its end
IndexComplete ==
    \/ pc \in {"pass2", "resolve", "config", "done"}
    \/ pc = "failed" /\ err[1].kind = "UnknownLabel"

\* the entities whose label list holds the label
Owners(label) == {k \in DOMAIN all_stubs : label \in Range(all_stubs[k].labels)}

\* the step resolves the entity k: every entry of the two dependency lists is
\* replaced by the key of the one entity that owns the label it named
RewritesToOwner(k) ==
    (pc = "resolve" /\ k \in to_resolve /\ k \notin to_resolve') =>
        /\ \A j \in 1..Len(all_stubs[k].spec_dependencies) :
              Owners(all_stubs[k].spec_dependencies[j])
                  = {all_stubs'[k].spec_dependencies[j]}
        /\ IsSome(all_stubs[k].proof_dependencies) =>
              \A j \in 1..Len(all_stubs[k].proof_dependencies[1]) :
                  Owners(all_stubs[k].proof_dependencies[1][j])
                      = {all_stubs'[k].proof_dependencies[1][j]}

(* C21.  Once the index is built, every label of every statement's label   *)
(* list (primary, earlier, or appended from the attached proof) is mapped  *)
(* to the key <path>/<last label> of the one entity whose list holds it,   *)
(* and the resolve pass rewrites a reference that names any such label to  *)
(* that key.                                                               *)
C21_AnyLabelResolvesToCanonicalName ==
    /\ [](IndexComplete =>
            /\ \A k \in DOMAIN all_stubs :
                  \A l \in Range(all_stubs[k].labels) :
                      /\ l \in DOMAIN label_to_stub_name
                      /\ label_to_stub_name[l] = k
                      /\ Owners(l) = {k}
                      /\ k = PathSlashLabel(all_stubs[k].stub_path,
                                            PrimaryLabel(all_stubs[k].labels))
            /\ \A i \in 1..Len(all_envs) :
                  \A l \in Range(all_envs[i].labels) :
                      /\ l \in DOMAIN label_to_stub_name
                      /\ label_to_stub_name[l] \in StubsOf(all_envs[i]))
    /\ [][\A k \in DOMAIN all_stubs : RewritesToOwner(k)]_vars

\* a successful run in which a proof's \uses named the first, non-primary label
\* of a statement whose last label comes from its attached proof, and the
\* reference was rewritten to that statement's key
C21_Witness ==
    /\ pc = "done"
    /\ \E k \in DOMAIN all_stubs :
          /\ all_stubs[k].labels = <<Y, Z>>
          /\ all_stubs[k].label = Z
          /\ \E i \in 1..Len(all_standalone_proofs) :
                all_standalone_proofs[i][2].dependencies = <<Y>>
          /\ all_stubs[k].proof_dependencies = Some(<<k>>)

----------------------------------------------------------------------------
(* The phases of run(). *)

\* what the merge/resolve phase creates and mutates
registry_vars == <<seen_labels, label_counter, all_stubs, label_to_stub_name,
                   env_i, proof_i, to_index, to_resolve>>

\* no statement is registered, no label reserved, nothing indexed or merged
RegistryUntouched ==
    /\ seen_labels = {}
    /\ label_counter = 0
    /\ all_stubs = EmptyMap
    /\ label_to_stub_name = EmptyMap
    /\ env_i = 0
    /\ proof_i = 0

(* C22.  The merge/resolve phase starts only after the parse results of    *)
(* every document are collected: while a document is unread nothing is     *)
(* registered, reserved, indexed or merged, and every step that changes    *)
(* the label set, the counter, the entity map or the index is taken with   *)
(* no document left unread.                                                *)
C22_MergeAfterAllDocumentsParsed ==
    /\ [](DOMAIN unread # {} => RegistryUntouched)
    /\ [](pc \in {"start", "walk"} => RegistryUntouched)
    /\ [][registry_vars' # registry_vars =>
            /\ DOMAIN unread = {}
            /\ pc \notin {"start"}
            /\ Len(all_envs) = Len(all_envs')
            /\ \A path \in DOMAIN documents :
                  \A i \in 1..Len(documents[path].envs) :
                      ParsedEnv(path, documents[path].envs[i]) \in Range(all_envs)]_vars

\* pass 1 has registered a statement of a project of two documents
C22_Witness ==
    /\ pc = "pass1"
    /\ env_i >= 1
    /\ Cardinality(DOMAIN documents) = 2
    /\ \A path \in DOMAIN documents : documents[path].envs # <<>>
    /\ seen_labels # {}
    /\ DOMAIN all_stubs # {}

----------------------------------------------------------------------------
(* Comments, character by character. *)

\* What a scan of s from position i on keeps, character by character.  mode is
\* "escaped" right after a backslash that was copied, "comment" after an
\* unescaped % until the next newline, "text" otherwise.
RECURSIVE CharScan(_, _, _)
CharScan(s, i, mode) ==
    IF i > Len(s) THEN <<>>
    ELSE IF mode = "escaped" THEN <<s[i]>> \o CharScan(s, i + 1, "text")
    ELSE IF mode = "comment"
    THEN IF s[i] = "\n" THEN <<s[i]>> \o CharScan(s, i + 1, "text")
         ELSE CharScan(s, i + 1, "comment")
    ELSE IF s[i] = "\\" THEN <<s[i]>> \o CharScan(s, i + 1, "escaped")
    ELSE IF s[i] = "%" THEN CharScan(s, i + 1, "comment")
    ELSE <<s[i]>> \o CharScan(s, i + 1, "text")

\* s from its first newline on, empty if it has none
FromNewline(s) ==
    IF Find(s, 1, <<"\n">>) = 0 THEN <<>> ELSE SubSeq(s, Find(s, 1, <<"\n">>), Len(s))

(* C23.  strip_latex_comments copies a backslash together with the next    *)
(* character, drops an unescaped % and every character up to, not          *)
(* including, the next newline, and copies every other character: \% is    *)
(* kept and starts no comment, \\% starts one, and the output is the input *)
(* without its comment spans.                                              *)
C23_ExactlyCommentsRemoved ==
    stripped_text # None =>
        /\ stripped_text[1] = CharScan(text, 1, "text")
        /\ MatchAt(text, 1, <<"\\", "%">>) =>
              stripped_text[1] = <<"\\", "%">>
                  \o CharScan(SubSeq(text, 3, Len(text)), 1, "text")
        /\ MatchAt(text, 1, <<"\\", "\\", "%">>) =>
              stripped_text[1] = <<"\\", "\\">>
                  \o CharScan(FromNewline(text), 1, "text")
        /\ (\A i \in 1..Len(text) : text[i] \notin {"\\", "%"}) =>
              stripped_text[1] = text

\* an escaped % was kept, the comment after it dropped up to the newline
C23_Witness ==
    /\ text = <<"\\", "%", "%", "a", "\n">>
    /\ stripped_text = Some(<<"\\", "%", "\n">>)

\* the positions of s that hold a % no backslash escapes, by the scan of CharScan
RECURSIVE UnescapedPercents(_, _, _)
UnescapedPercents(s, i, mode) ==
    IF i > Len(s) THEN {}
    ELSE IF mode = "escaped" THEN UnescapedPercents(s, i + 1, "text")
    ELSE IF mode = "comment"
    THEN UnescapedPercents(s, i + 1, IF s[i] = "\n" THEN "text" ELSE "comment")
    ELSE IF s[i] = "\\" THEN UnescapedPercents(s, i + 1, "escaped")
    ELSE IF s[i] = "%" THEN {i} \union UnescapedPercents(s, i + 1, "comment")
    ELSE UnescapedPercents(s, i + 1, "text")

(* C29.  strip_latex_comments is idempotent: the stripped text holds no    *)
(* unescaped %, and stripping it again gives the same text.                *)
C29_StripIdempotent ==
    stripped_text # None =>
        /\ UnescapedPercents(stripped_text[1], 1, "text") = {}
        /\ strip_latex_comments(stripped_text[1]) = stripped_text[1]

\* a text with a comment and, after it, an escaped % was stripped
C29_Witness ==
    /\ text = <<"%", "a", "\n", "\\", "%">>
    /\ stripped_text = Some(<<"\n", "\\", "%">>)
    /\ UnescapedPercents(text, 1, "text") = {1}

----------------------------------------------------------------------------
(* Openers without a closer. *)

\* the first \begin{X} of the text, when no \end{X} follows it
UnmatchedOpener ==
    LET m == FindMacro(text, 1, BeginOpen)
    IN  IF m # None /\ Find(text, m[1].end + 1, EndOf(m[1].arg)) = 0 THEN m ELSE None

\* the positions an iteration of the scan can start at: the first one, and the
\* one after each closing brace (a match of \begin{..} or \end{..} ends there)
ScanStarts == {1} \union {i + 1 : i \in {j \in 1..(Len(text) - 1) : text[j] = "}"}}

(* C24.  A \begin{X} that no \end{X} follows is copied to the output and   *)
(* the scan of strip_nested_environments resumes right after it: the text  *)
(* and the labels after it are processed as a text of their own, regions   *)
(* matched later are removed; the scan position advances in every          *)
(* iteration, and the output is never longer than the input.               *)
C24_UnmatchedOpenerIsKept ==
    top_labels # None =>
        /\ UnmatchedOpener # None =>
              LET m    == UnmatchedOpener[1]
                  rest == SubSeq(text, m.end + 1, Len(text))
              IN  /\ strip_nested_environments(text)
                        = SubSeq(text, 1, m.end) \o strip_nested_environments(rest)
                  /\ top_labels[1]
                        = MacroArgs(SubSeq(text, 1, m.start - 1), 1, LabelOpen)
                          \o extract_all_labels(rest)
        /\ \A pos \in ScanStarts \cap 1..Len(text) :
              /\ NextScanPos(text, pos) > pos
              /\ NextScanPos(text, pos) <= Len(text) + 1
        /\ Len(strip_nested_environments(text)) <= Len(text)

\* after an opener without a closer a label was kept and a closed environment
\* with its label removed
C24_Witness ==
    /\ text = BeginOf(EnvA) \o LabelOf(X) \o BeginOf(EnvB) \o LabelOf(Y) \o EndOf(EnvB)
    /\ top_labels = Some(<<X>>)
    /\ strip_nested_environments(text) = BeginOf(EnvA) \o LabelOf(X)

----------------------------------------------------------------------------
(* The order of the statements of a document. *)

\* how often the name is written in the list
Count(list, name) == Cardinality({i \in 1..Len(list) : list[i] = name})

\* the two lists name the same block types, each as often, in some order
SameTypes(a, b) == \A name \in Range(a) \union Range(b) : Count(a, name) = Count(b, name)

\* the comment-stripped text parse_tex_file scans
Scanned == strip_latex_comments(text)

\* m is an occurrence of \begin{type}..\end{type} in s, closed by the first
\* \end{type} after its \begin{type}
IsOccurrence(s, m) ==
    /\ MatchAt(s, m.start_pos, BeginOf(m.env_type))
    /\ MatchAt(s, m.end_pos - Len(EndOf(m.env_type)), EndOf(m.env_type))
    /\ Find(s, m.start_pos + Len(BeginOf(m.env_type)), EndOf(m.env_type))
          = m.end_pos - Len(EndOf(m.env_type))

(* C25.  parse_tex_file returns the statements of a document by increasing *)
(* start offset of their \begin{type} (strictly, when no type is listed    *)
(* twice), whatever the order in which the block types are listed; the     *)
(* occurrences matched for one type do not overlap one another.            *)
C25_StatementsInDocumentOrder ==
    parsed_envs # None =>
        LET M == SortedMatches(Scanned, env_types)
            P == parsed_envs[1]
        IN  /\ Len(P) = Len(M)
            /\ \A i \in 1..Len(M) :
                  /\ IsOccurrence(Scanned, M[i])
                  /\ P[i].env_type = M[i].env_type
                  /\ P[i].spec_lines.lines_start = byte_pos_to_line(Scanned, M[i].start_pos)
            /\ \A i, j \in 1..Len(M) :
                  i < j =>
                      /\ M[i].start_pos <= M[j].start_pos
                      /\ P[i].spec_lines.lines_start <= P[j].spec_lines.lines_start
                      /\ Cardinality(Range(env_types)) = Len(env_types) =>
                            M[i].start_pos < M[j].start_pos
            /\ \A name \in Range(env_types) :
                  LET C == CapturesOf(Scanned, 1, name)
                  IN  \A i, j \in 1..Len(C) : i < j => C[i].end_pos <= C[j].start_pos
            /\ \A other \in EnvTypeLists :
                  SameTypes(other, env_types) =>
                      parse_tex_file(text, DocPath, other) = P

\* lemma is listed before theorem, the text holds a theorem with a lemma inside
\* it: the theorem is returned first
C25_Witness ==
    /\ env_types = <<DEFAULT_ENVS[2], DEFAULT_ENVS[4]>>
    /\ text = BeginOf(DEFAULT_ENVS[4]) \o BeginOf(DEFAULT_ENVS[2])
              \o EndOf(DEFAULT_ENVS[2]) \o EndOf(DEFAULT_ENVS[4])
    /\ parsed_envs # None
    /\ Len(parsed_envs[1]) = 2
    /\ parsed_envs[1][1].env_type = DEFAULT_ENVS[4]
    /\ parsed_envs[1][2].env_type = DEFAULT_ENVS[2]

----------------------------------------------------------------------------
(* The project config. *)

ConfigKeys == {"home", "github", "dochome"}

\* the documents the walk has read
ReadDocs == {documents[path] : path \in DOMAIN documents \ DOMAIN unread}

\* the values of the key that web.tex, once read, and the documents read so far
\* declare
Declared(key) ==
    (IF pc # "start" /\ IsSome(web_tex) /\ IsSome(web_tex[1][key])
     THEN {web_tex[1][key]} ELSE {})
    \union {doc.config[key] : doc \in {d \in ReadDocs : IsSome(d.config[key])}}

(* C26.  Config merging is last-write-wins per key: reading a document     *)
(* sets each of home, github and dochome to the document's value when it   *)
(* declares one and leaves it otherwise; a key that was found is never     *)
(* lost, a document's value overrides the one of web.tex, and a key no     *)
(* document declares stays absent.                                         *)
C26_ConfigLastWriteWins ==
    /\ [][\A path \in DOMAIN unread \ DOMAIN unread' :
            \A key \in ConfigKeys :
                project_config'[key] =
                    IF IsSome(unread[path].config[key]) THEN unread[path].config[key]
                    ELSE project_config[key]]_vars
    /\ [][\A key \in ConfigKeys :
            IsSome(project_config[key]) => IsSome(project_config'[key])]_vars
    /\ [](\A key \in ConfigKeys :
            /\ IsSome(project_config[key]) <=> Declared(key) # {}
            /\ IsSome(project_config[key]) => project_config[key] \in Declared(key)
            /\ (\E doc \in ReadDocs : IsSome(doc.config[key])) =>
                  \E doc \in ReadDocs : doc.config[key] = project_config[key])

\* web.tex and two documents declare \home with three values: the value of the
\* document read last is the one that stays, \github comes from the only
\* document that declares it, \dochome is absent
C26_Witness ==
    /\ pc = "done"
    /\ web_tex = Some([DefaultConfig EXCEPT !.home = Some("h")])
    /\ {documents[path].config.home : path \in DOMAIN documents}
          = {Some("h1"), Some("h2")}
    /\ all_envs[1].labels = <<SlashLabel>>
    /\ project_config = [home |-> Some("h1"), github |-> Some("g"), dochome |-> None]

----------------------------------------------------------------------------
(* One entity per statement. *)

(* C27.  In pass 1 no two statements produce the same entity key: every    *)
(* insert adds a new key and leaves the entities already there untouched,  *)
(* so the entity map holds one entity per registered statement and, after  *)
(* a successful run, as many entities as there are parsed statements, also *)
(* for paths and labels that hold a '/'.                                   *)
C27_OneEntityPerStatement ==
    /\ [][(pc = "pass1" /\ env_i' = env_i + 1) =>
            /\ Cardinality(DOMAIN all_stubs' \ DOMAIN all_stubs) = 1
            /\ \A k \in DOMAIN all_stubs :
                  k \in DOMAIN all_stubs' /\ all_stubs'[k] = all_stubs[k]]_vars
    /\ [](Cardinality(DOMAIN all_stubs) = env_i)
    /\ [](pc = "done" => Cardinality(DOMAIN all_stubs) = Len(all_envs))

\* a successful run on two documents: a statement whose label holds a '/', in a
\* document whose path holds one, and a statement of another document
C27_Witness ==
    /\ pc = "done"
    /\ Len(all_envs) = 2
    /\ DOMAIN all_stubs =
          { <<"d", "/", "c.tex", "/", "c.tex", "/", "x">>, <<"a.tex", "/", "x">> }
    /\ \E k \in DOMAIN all_stubs :
          all_stubs[k].label = SlashLabel /\ all_stubs[k].stub_path = <<"d", "/", "c.tex">>

----------------------------------------------------------------------------
(* The atoms. *)

\* every dependency of every stub of the map is a key of the map
Closed(stubs) == \A k \in DOMAIN stubs : DepsOf(stubs[k]) \subseteq DOMAIN stubs

(* C30.  atomize::run keeps the graph closed: from a stubs map in which    *)
(* every dependency is a key, it writes one atom per stub, keyed by the    *)
(* part of the stub name after its last '/', and every entry of every      *)
(* atom's dependencies (spec-dependencies, then proof-dependencies) is a   *)
(* key of the atoms map.                                                   *)
C30_AtomsClosed ==
    (IsSome(atoms_file) /\ Closed(stubs_file[1])) =>
        LET stubs == stubs_file[1]
            atoms == atoms_file[1]
        IN  /\ DOMAIN atoms = {LastSegment(k) : k \in DOMAIN stubs}
            /\ Cardinality(DOMAIN atoms) = Cardinality(DOMAIN stubs)
            /\ \A l \in DOMAIN atoms : Range(atoms[l].dependencies) \subseteq DOMAIN atoms

----------------------------------------------------------------------------
(* The proof-side fields. *)

\* a proof-side flag is absent or true, a proof-side list absent or non-empty
ProofSideWellFormed(r) ==
    /\ r.proof_ok \in {None, Some(TRUE)}
    /\ r.proof_mathlib_ok \in {None, Some(TRUE)}
    /\ r.proof_not_ready \in {None, Some(TRUE)}
    /\ r.proof_discussion # Some(<<>>)
    /\ r.proof_dependencies # Some(<<>>)
    /\ r.proof_lean_names # Some(<<>>)

(* C28.  In every state of parsing, merging and resolution a proof-side    *)
(* field is never present with an empty value: proof-ok, proof-mathlib-ok  *)
(* and proof-not-ready are absent or true, proof-discussion,               *)
(* proof-dependencies and proof-lean-names absent or a non-empty list, in  *)
(* the parsed statements, in the entities and in the written map.          *)
C28_ProofSideNeverEmpty ==
    /\ \A path \in DOMAIN documents :
          \A i \in 1..Len(documents[path].envs) :
              ProofSideWellFormed(documents[path].envs[i])
    /\ \A i \in 1..Len(all_envs) : ProofSideWellFormed(all_envs[i])
    /\ \A k \in DOMAIN all_stubs : ProofSideWellFormed(all_stubs[k])
    /\ IsSome(stubs_file) =>
          \A k \in DOMAIN stubs_file[1] : ProofSideWellFormed(stubs_file[1][k])

\* a statement with an attached proof that has \leanok and \uses but no
\* \mathlibok, after the resolve pass
C28_Witness ==
    /\ pc = "done"
    /\ <<"a.tex", "/", "y">> \in DOMAIN all_stubs
    /\ all_stubs[<<"a.tex", "/", "y">>].labels = <<X, Y>>
    /\ all_stubs[<<"a.tex", "/", "y">>].proof_ok = Some(TRUE)
    /\ all_stubs[<<"a.tex", "/", "y">>].proof_mathlib_ok = None
    /\ all_stubs[<<"a.tex", "/", "y">>].proof_discussion = None
    /\ all_stubs[<<"a.tex", "/", "y">>].proof_dependencies = Some(<<<<"a.tex", "/", "z">>>>)

====
